---- MODULE Spec2Model ----
(***************************************************************************)
(* Verification model of clawdesk.tenancy.context.TenancyContext: the      *)
(* bootstrapper chain with initialize / end / run / central /              *)
(* run_for_multiple.  The context is used sequentially (one caller); every *)
(* await of the code is one step of the model.  A call stack of frames     *)
(* holds the position of each coroutine that is in progress.               *)
(***************************************************************************)
EXTENDS Integers, Sequences, FiniteSets, TLC

\* ---------------------------------------------------------------- bounds
NumBootstrappers == 3      \* length of the configured bootstrapper list
MaxTenantId == 2           \* tenant ids are 1..MaxTenantId
MaxTenants == 2            \* longest tenant list given to run_for_multiple

\* ---------------------------------------------------------------- values
\* self._bootstrappers: the configured chain, named by position
_bootstrappers == [k \in 1..NumBootstrappers |-> k]

TenantIds == 1..MaxTenantId
TenantNames == {"Acme", "Beta"}

\* models.Tenant, reduced to the fields the context reads (id) plus one
\* payload field, so that two Tenant objects can share an id
Tenant == [id : TenantIds, name : TenantNames]

\* Python's None, as a value comparable with Tenant records
None == [id |-> 0, name |-> "None"]

\* Exceptions in flight, named by where they were raised
NoExc == [kind |-> "none", b |-> 0]
BootstrapFailure(b) == [kind |-> "bootstrap", b |-> b]
RevertFailure(b) == [kind |-> "revert", b |-> b]
CallbackFailure == [kind |-> "callback", b |-> 0]

\* Outcome handed by a finished coroutine to the code awaiting it
NoRet == [status |-> "none", exc |-> NoExc, fn |-> "none"]
Returned(fn) == [status |-> "ok", exc |-> NoExc, fn |-> fn]
Raised(fn, e) == [status |-> "raised", exc |-> e, fn |-> fn]

VARIABLES
    tenant,                     \* self._tenant
    initialized,                \* self._initialized
    _initialized_bootstrappers,  \* self._initialized_bootstrappers
    frames,                     \* call stack of the coroutines in progress
    ret,                        \* outcome of the coroutine that finished last
    log,                        \* bootstrap / revert / callback invocations of the current call
    revert_errors,              \* TRUE once logger.exception has reported a revert failure in the current call
    entry,                      \* the current top-level call: its arguments and the state it was made in
    bootstrapped                \* bootstrappers whose latest completed bootstrap no revert has followed

vars == <<tenant, initialized, _initialized_bootstrappers, frames, ret, log,
          revert_errors, entry, bootstrapped>>

ctx == <<tenant, initialized, _initialized_bootstrappers>>

\* State of clawdesk.openclaw.client.GatewayClient and of its environment
\* (the caller tasks, the reader tasks, the connections and the gateway).
VARIABLES
    _ws,            \* self._ws: the connection in use (0 for None)
    _request_id,    \* self._request_id
    _pending,       \* self._pending: the request ids that have a future in the table
    _reader_task,   \* self._reader_task: a reader task (0 for None)
    futures,        \* the future created for each request id
    callers,        \* the tasks that call _request: position and locals
    disc,           \* the task that calls disconnect: position and locals
    tasks,          \* every reader task created so far
    conns,          \* every connection attempted so far
    issued,         \* request ids in the order in which they were allocated
    observed        \* what the step just taken returned, handled or raised

client_vars == <<_ws, _request_id, _pending, _reader_task, futures, callers,
                 disc, tasks, conns, issued, observed>>

\* State of clawdesk.openclaw.provisioner.TenantProvisioner and of its
\* environment (the gateway it talks to, the workspace directories and the
\* tasks that call provision and deprovision).
VARIABLES
    _config,            \* the gateway's document: the list of agent ids under agents.list
    _hash,              \* the gateway's version token: n stands for "hash-n"
    patch_config_calls, \* number of patches the gateway has applied
    workspaces,         \* agent id -> whether <workspace_base_dir>/<agent id> exists
    archived,           \* agent id -> whether an archived copy of its workspace exists
    ops,                \* the tasks that call provision / deprovision: position and locals
    result,             \* the ProvisioningResult returned by the step just taken
    reported            \* agent ids whose latest reported success is that of an add, not of a remove

prov_vars == <<_config, _hash, patch_config_calls, workspaces,
               archived, ops, result, reported>>

VARIABLES
    _tenants,       \* _tenants: tenant id -> the stored tenant (Missing for no entry)
    _api_keys,      \* _api_keys: API key -> tenant id (NoTenantId for no entry)
    creating,       \* the create_tenant requests that await provision
    deleting,       \* the tenant ids whose delete_tenant request awaits deprovision
    created,        \* number of tenant ids generated so far
    response        \* the response that the step just taken sent

app_vars == <<_tenants, _api_keys, creating, deleting, created, response>>

all_vars == <<vars, client_vars, prov_vars, app_vars>>

\* ---------------------------------------------------------------- helpers
Frame(fn, t, ts) ==
    [fn |-> fn, pc |-> "start", tenant |-> t, tenants |-> ts,
     prev |-> None, i |-> 0, exc |-> NoExc, errors |-> {}]

Top == frames[Len(frames)]
At(fn, pc) == frames # <<>> /\ Top.fn = fn /\ Top.pc = pc
SetTop(f) == [frames EXCEPT ![Len(frames)] = f]
Pop == SubSeq(frames, 1, Len(frames) - 1)

\* the running coroutine moves on to pc
Goto(pc) == frames' = SetTop([Top EXCEPT !.pc = pc])
\* the running coroutine awaits another one and resumes at pc
Await(pc, callee) == frames' = Append(SetTop([Top EXCEPT !.pc = pc]), callee)
\* the running coroutine returns / raises to the code awaiting it
Finish(outcome) == frames' = Pop /\ ret' = outcome

Event(ev, b, arg) ==
    [ev |-> ev, b |-> b, arg |-> arg, cur |-> tenant, init |-> initialized]

Reverse(s) == [k \in 1..Len(s) |-> s[Len(s) + 1 - k]]

\* truth value of "if previous_tenant:" for a Tenant | None
Truthy(t) == t # None

\* ---------------------------------------------------------------- Init
NoCall ==
    [fn |-> "none", arg |-> None, args |-> <<>>, tenant |-> None,
     initialized |-> FALSE, stack |-> <<>>]

\* bounds of the GatewayClient model
MaxRequests == 2
MaxConnections == 2

\* GatewayClient.__init__, with no caller, reader or connection yet
ClientInit ==
    /\ _ws = 0
    /\ _request_id = 0
    /\ _pending = {}
    /\ _reader_task = 0
    /\ futures = <<>>
    /\ callers = [c \in {"a", "b"} |-> [pc |-> "idle", req_id |-> 0, ws |-> 0]]
    /\ disc = [pc |-> "idle", ws |-> 0]
    /\ tasks = [t \in 1..MaxConnections |-> [state |-> "free", conn |-> 0]]
    /\ conns = [k \in 1..MaxConnections |-> [state |-> "free", received |-> {}]]
    /\ issued = <<>>
    /\ observed = [ev |-> "none", caller |-> "none", id |-> 0, kind |-> "none",
                   payload |-> 0]

\* bounds of the TenantProvisioner model
MaxPatches == 3

Slugs == {"acme", "globex"}

\* TenantProvisioner.tenant_to_agent_id
tenant_to_agent_id(slug) == "tenant-" \o slug

AgentIds == {tenant_to_agent_id(s) : s \in Slugs}

NotRunning ==
    [pc |-> "idle", call |-> "none", agent |-> "none",
     snapshot |-> [config |-> <<>>, hash |-> 0], reply |-> "none",
     applied |-> FALSE]

NoResult ==
    [op |-> "none", call |-> "none", agent |-> "none", status |-> "none",
     error |-> "none", from |-> "none", applied |-> FALSE]

\* MockGateway() and TenantProvisioner.__init__ over an empty base directory
ProvInit ==
    /\ _config = <<>>
    /\ _hash = 1
    /\ patch_config_calls = 0
    /\ workspaces = [a \in AgentIds |-> FALSE]
    /\ archived = [a \in AgentIds |-> FALSE]
    /\ ops = [o \in {"p", "q"} |-> NotRunning]
    /\ result = NoResult
    /\ reported = {}

\* bound of the app model: tenant ids and API keys are 1..MaxCreated
MaxCreated == 2

NoTenantId == 0

Missing == [slug |-> "none", status |-> "none"]

NoResponse == [route |-> "none", code |-> 0, tenant_id |-> 0]

\* the module-level stores of app.py, empty
AppInit ==
    /\ _tenants = [i \in 1..MaxCreated |-> Missing]
    /\ _api_keys = [k \in 1..MaxCreated |-> NoTenantId]
    /\ creating = {}
    /\ deleting = {}
    /\ created = 0
    /\ response = NoResponse

Init ==
    /\ tenant = None
    /\ initialized = FALSE
    /\ _initialized_bootstrappers = <<>>
    /\ frames = <<>>
    /\ ret = NoRet
    /\ log = <<>>
    /\ revert_errors = FALSE
    /\ entry = NoCall
    /\ bootstrapped = {}
    /\ ClientInit
    /\ ProvInit
    /\ AppInit

\* ---------------------------------------------------------------- calls
\* The (single) caller invokes a public operation on the idle context.
Call(f) ==
    /\ frames = <<>>
    /\ ret = NoRet
    /\ frames' = <<f>>
    /\ entry' = [fn |-> f.fn, arg |-> f.tenant, args |-> f.tenants, tenant |-> tenant,
                  initialized |-> initialized, stack |-> _initialized_bootstrappers]
    /\ UNCHANGED <<ctx, ret, log, revert_errors>>
    /\ UNCHANGED <<client_vars, prov_vars, app_vars, bootstrapped>>

\* The caller has taken the outcome of its call (value or exception) and
\* starts over with an empty log, as the tests do between two calls.
CallerResumes ==
    /\ frames = <<>>
    /\ ret # NoRet
    /\ ret' = NoRet
    /\ log' = <<>>
    /\ revert_errors' = FALSE
    /\ entry' = NoCall
    /\ UNCHANGED <<ctx, frames>>
    /\ UNCHANGED <<client_vars, prov_vars, app_vars, bootstrapped>>

CallInitialize == \E t \in Tenant : Call(Frame("initialize", t, <<>>))
CallEnd == Call(Frame("end", None, <<>>))
CallRun == \E t \in Tenant : Call(Frame("run", t, <<>>))
CallCentral == Call(Frame("central", None, <<>>))
CallRunForMultiple ==
    \E n \in 0..MaxTenants : \E ts \in [1..n -> Tenant] :
        Call(Frame("run_for_multiple", None, ts))

\* ---------------------------------------------------------------- initialize
\* variant: the same-tenant test compares the Tenant objects, not their ids
SameTenant_ByObject(t) == initialized /\ Truthy(tenant) /\ tenant = t

\* "if self._initialized and self._tenant and self._tenant.id == tenant.id"
SameTenant(t) == initialized /\ Truthy(tenant) /\ tenant.id = t.id

\* variant: the previous tenancy is not ended before the new one is set up
InitializeStart_NoEnd ==
    /\ At("initialize", "start")
    /\ IF SameTenant(Top.tenant)
       THEN Finish(Returned("initialize"))
       ELSE Goto("assign") /\ UNCHANGED ret
    /\ UNCHANGED <<ctx, log, revert_errors, entry>>
    /\ UNCHANGED <<client_vars, prov_vars, app_vars, bootstrapped>>

\* no-op for the same tenant; otherwise end the previous tenancy first
InitializeStart ==
    /\ At("initialize", "start")
    /\ IF SameTenant(Top.tenant)
       THEN Finish(Returned("initialize"))
       ELSE IF initialized
            THEN Await("assign", Frame("end", None, <<>>)) /\ UNCHANGED ret
            ELSE Goto("assign") /\ UNCHANGED ret
    /\ UNCHANGED <<ctx, log, revert_errors, entry>>
    /\ UNCHANGED <<client_vars, prov_vars, app_vars, bootstrapped>>

\* variant: the stack of the previous attempt is not reset
InitializeAssign_KeepsStack ==
    /\ At("initialize", "assign")
    /\ tenant' = Top.tenant
    /\ frames' = SetTop([Top EXCEPT !.pc = "loop", !.i = 1])
    /\ UNCHANGED <<initialized, _initialized_bootstrappers, ret, log, revert_errors, entry>>
    /\ UNCHANGED <<client_vars, prov_vars, app_vars, bootstrapped>>

\* self._tenant = tenant; self._initialized_bootstrappers = []
InitializeAssign ==
    /\ At("initialize", "assign")
    /\ tenant' = Top.tenant
    /\ _initialized_bootstrappers' = <<>>
    /\ frames' = SetTop([Top EXCEPT !.pc = "loop", !.i = 1])
    /\ UNCHANGED <<initialized, ret, log, revert_errors, entry>>
    /\ UNCHANGED <<client_vars, prov_vars, app_vars, bootstrapped>>

\* variant: the bootstrapper is pushed on the stack before its bootstrap is
\* awaited, so a failing bootstrapper is part of the rollback
InitializeBootstrap_PushFirst ==
    /\ At("initialize", "loop")
    /\ Top.i <= Len(_bootstrappers)
    /\ log' = Append(log, Event("up", _bootstrappers[Top.i], Top.tenant))
    /\ _initialized_bootstrappers' =
            Append(_initialized_bootstrappers, _bootstrappers[Top.i])
    /\ \E ok \in BOOLEAN :
        IF ok
        THEN /\ frames' = SetTop([Top EXCEPT !.i = @ + 1])
             /\ bootstrapped' = bootstrapped \cup {_bootstrappers[Top.i]}
        ELSE /\ bootstrapped' = bootstrapped
             /\ frames' = Append(
                    SetTop([Top EXCEPT !.pc = "except",
                                       !.exc = BootstrapFailure(_bootstrappers[Top.i])]),
                    Frame("_revert_initialized", None, <<>>))
    /\ UNCHANGED <<tenant, initialized, ret, revert_errors, entry>>
    /\ UNCHANGED <<client_vars, prov_vars, app_vars>>

\* one iteration of the loop: await bootstrapper.bootstrap(tenant), which
\* completes (append to the stack) or raises (revert what was initialized)
InitializeBootstrap ==
    /\ At("initialize", "loop")
    /\ Top.i <= Len(_bootstrappers)
    /\ log' = Append(log, Event("up", _bootstrappers[Top.i], Top.tenant))
    /\ \E ok \in BOOLEAN :
        IF ok
        THEN /\ _initialized_bootstrappers' =
                    Append(_initialized_bootstrappers, _bootstrappers[Top.i])
             /\ bootstrapped' = bootstrapped \cup {_bootstrappers[Top.i]}
             /\ frames' = SetTop([Top EXCEPT !.i = @ + 1])
        ELSE /\ _initialized_bootstrappers' = _initialized_bootstrappers
             /\ bootstrapped' = bootstrapped
             /\ frames' = Append(
                    SetTop([Top EXCEPT !.pc = "except",
                                       !.exc = BootstrapFailure(_bootstrappers[Top.i])]),
                    Frame("_revert_initialized", None, <<>>))
    /\ UNCHANGED <<tenant, initialized, ret, revert_errors, entry>>
    /\ UNCHANGED <<client_vars, prov_vars, app_vars>>

\* variant: the except branch re-raises without clearing self._tenant
InitializeExcept_KeepsTenant ==
    /\ At("initialize", "except")
    /\ initialized' = FALSE
    /\ Finish(Raised("initialize", Top.exc))
    /\ UNCHANGED <<tenant, _initialized_bootstrappers, log, revert_errors, entry>>
    /\ UNCHANGED <<client_vars, prov_vars, app_vars, bootstrapped>>

\* except branch after the rollback: clear the state and re-raise
InitializeExcept ==
    /\ At("initialize", "except")
    /\ tenant' = None
    /\ initialized' = FALSE
    /\ Finish(Raised("initialize", Top.exc))
    /\ UNCHANGED <<_initialized_bootstrappers, log, revert_errors, entry>>
    /\ UNCHANGED <<client_vars, prov_vars, app_vars, bootstrapped>>

\* the loop is exhausted: self._initialized = True
InitializeDone ==
    /\ At("initialize", "loop")
    /\ Top.i > Len(_bootstrappers)
    /\ initialized' = TRUE
    /\ Finish(Returned("initialize"))
    /\ UNCHANGED <<tenant, _initialized_bootstrappers, log, revert_errors, entry>>
    /\ UNCHANGED <<client_vars, prov_vars, app_vars, bootstrapped>>

\* ---------------------------------------------------------------- _revert_initialized
\* variant: the stack is walked in application order
RevertOrder_Forward(stack) == stack

\* order in which the stack is walked: reversed(self._initialized_bootstrappers)
RevertOrder(stack) == Reverse(stack)

\* variant: a failing revert is not caught and leaves the loop
RevertInitializedStep_Propagates ==
    /\ At("_revert_initialized", "start")
    /\ Top.i < Len(_initialized_bootstrappers)
    /\ LET b == RevertOrder(_initialized_bootstrappers)[Top.i + 1] IN
        /\ log' = Append(log, Event("down", b, None))
        /\ bootstrapped' = bootstrapped \ {b}
        /\ \E ok \in BOOLEAN :
            IF ok
            THEN /\ frames' = SetTop([Top EXCEPT !.i = @ + 1])
                 /\ UNCHANGED <<ret, revert_errors>>
            ELSE /\ Finish(Raised("_revert_initialized", RevertFailure(b)))
                 /\ revert_errors' = TRUE
    /\ UNCHANGED <<ctx, entry>>
    /\ UNCHANGED <<client_vars, prov_vars, app_vars>>

\* one iteration: await bootstrapper.revert(); a failure is reported with
\* logger.exception (kept in the frame as errors) and swallowed
RevertInitializedStep ==
    /\ At("_revert_initialized", "start")
    /\ Top.i < Len(_initialized_bootstrappers)
    /\ LET b == RevertOrder(_initialized_bootstrappers)[Top.i + 1] IN
        /\ log' = Append(log, Event("down", b, None))
        /\ bootstrapped' = bootstrapped \ {b}
        /\ \E ok \in BOOLEAN :
            IF ok
            THEN /\ frames' = SetTop([Top EXCEPT !.i = @ + 1])
                 /\ revert_errors' = revert_errors
            ELSE /\ frames' = SetTop([Top EXCEPT !.i = @ + 1,
                                                 !.errors = @ \cup {RevertFailure(b)}])
                 /\ revert_errors' = TRUE
    /\ UNCHANGED <<ctx, ret, entry>>
    /\ UNCHANGED <<client_vars, prov_vars, app_vars>>

RevertInitializedReturn ==
    /\ At("_revert_initialized", "start")
    /\ Top.i >= Len(_initialized_bootstrappers)
    /\ Finish(Returned("_revert_initialized"))
    /\ UNCHANGED <<ctx, log, revert_errors, entry>>
    /\ UNCHANGED <<client_vars, prov_vars, app_vars, bootstrapped>>

\* ---------------------------------------------------------------- end
\* variant: end does not test self._initialized
EndStart_NoGuard ==
    /\ At("end", "start")
    /\ Await("clear", Frame("_revert_initialized", None, <<>>))
    /\ UNCHANGED <<ctx, ret, log, revert_errors, entry>>
    /\ UNCHANGED <<client_vars, prov_vars, app_vars, bootstrapped>>

EndStart ==
    /\ At("end", "start")
    /\ IF ~initialized
       THEN Finish(Returned("end"))
       ELSE Await("clear", Frame("_revert_initialized", None, <<>>)) /\ UNCHANGED ret
    /\ UNCHANGED <<ctx, log, revert_errors, entry>>
    /\ UNCHANGED <<client_vars, prov_vars, app_vars, bootstrapped>>

\* variant: end reverts the stack but leaves self._initialized set
EndClear_KeepsInitialized ==
    /\ At("end", "clear")
    /\ tenant' = None
    /\ Finish(Returned("end"))
    /\ UNCHANGED <<initialized, _initialized_bootstrappers, log, revert_errors, entry>>
    /\ UNCHANGED <<client_vars, prov_vars, app_vars, bootstrapped>>

\* self._tenant = None; self._initialized = False; the stack is emptied
EndClear ==
    /\ At("end", "clear")
    /\ tenant' = None
    /\ initialized' = FALSE
    /\ _initialized_bootstrappers' = <<>>
    /\ Finish(Returned("end"))
    /\ UNCHANGED <<log, revert_errors, entry>>
    /\ UNCHANGED <<client_vars, prov_vars, app_vars, bootstrapped>>

\* ---------------------------------------------------------------- run
\* previous_tenant = self._tenant; try: await self.initialize(tenant)
RunStart ==
    /\ At("run", "start")
    /\ frames' = Append(SetTop([Top EXCEPT !.pc = "after_initialize", !.prev = tenant]),
                        Frame("initialize", Top.tenant, <<>>))
    /\ UNCHANGED <<ctx, ret, log, revert_errors, entry>>
    /\ UNCHANGED <<client_vars, prov_vars, app_vars, bootstrapped>>

\* a failed initialize skips the callback and goes to the finally block
RunInitializeFailed ==
    /\ At("run", "after_initialize")
    /\ ret.status = "raised"
    /\ frames' = SetTop([Top EXCEPT !.pc = "finally", !.exc = ret.exc])
    /\ UNCHANGED <<ctx, ret, log, revert_errors, entry>>
    /\ UNCHANGED <<client_vars, prov_vars, app_vars, bootstrapped>>

\* result = await callback(tenant): returns or raises
RunCallback ==
    /\ At("run", "after_initialize")
    /\ ret.status = "ok"
    /\ log' = Append(log, Event("callback", 0, Top.tenant))
    /\ \E ok \in BOOLEAN :
        frames' = SetTop([Top EXCEPT !.pc = "finally",
                                     !.exc = IF ok THEN NoExc ELSE CallbackFailure])
    /\ UNCHANGED <<ctx, ret, revert_errors, entry>>
    /\ UNCHANGED <<client_vars, prov_vars, app_vars, bootstrapped>>

\* variant: the finally block always ends the tenancy
RunRestore_AlwaysEnd(prev) == Frame("end", None, <<>>)

\* what the finally block awaits to restore the previous context
RunRestore(prev) ==
    IF Truthy(prev) THEN Frame("initialize", prev, <<>>) ELSE Frame("end", None, <<>>)

RunFinally ==
    /\ At("run", "finally")
    /\ Await("after_finally", RunRestore(Top.prev))
    /\ UNCHANGED <<ctx, ret, log, revert_errors, entry>>
    /\ UNCHANGED <<client_vars, prov_vars, app_vars, bootstrapped>>

\* exception leaving a try/finally: one raised in the finally block
\* replaces the one that was in flight
FinallyOutcome(fn, inflight, r) ==
    IF r.status = "raised" THEN Raised(fn, r.exc)
    ELSE IF inflight # NoExc THEN Raised(fn, inflight)
    ELSE Returned(fn)

RunReturn ==
    /\ At("run", "after_finally")
    /\ Finish(FinallyOutcome("run", Top.exc, ret))
    /\ UNCHANGED <<ctx, log, revert_errors, entry>>
    /\ UNCHANGED <<client_vars, prov_vars, app_vars, bootstrapped>>

\* ---------------------------------------------------------------- central
\* variant: central does not end the current tenancy before the callback
CentralStart_NoEnd ==
    /\ At("central", "start")
    /\ frames' = SetTop([Top EXCEPT !.pc = "callback", !.prev = tenant])
    /\ UNCHANGED <<ctx, ret, log, revert_errors, entry>>
    /\ UNCHANGED <<client_vars, prov_vars, app_vars, bootstrapped>>

\* previous_tenant = self._tenant; await self.end()
CentralStart ==
    /\ At("central", "start")
    /\ frames' = Append(SetTop([Top EXCEPT !.pc = "callback", !.prev = tenant]),
                        Frame("end", None, <<>>))
    /\ UNCHANGED <<ctx, ret, log, revert_errors, entry>>
    /\ UNCHANGED <<client_vars, prov_vars, app_vars, bootstrapped>>

\* argument given to the callback of central
CentralArg(prev) == prev

\* result = await callback(previous_tenant): returns, or raises out of central
CentralCallback ==
    /\ At("central", "callback")
    /\ log' = Append(log, Event("callback", 0, CentralArg(Top.prev)))
    /\ \E ok \in BOOLEAN :
        IF ok THEN Goto("restore") /\ UNCHANGED ret
        ELSE Finish(Raised("central", CallbackFailure))
    /\ UNCHANGED <<ctx, revert_errors, entry>>
    /\ UNCHANGED <<client_vars, prov_vars, app_vars, bootstrapped>>

\* if previous_tenant: await self.initialize(previous_tenant)
CentralRestore ==
    /\ At("central", "restore")
    /\ IF Truthy(Top.prev)
       THEN Await("return", Frame("initialize", Top.prev, <<>>)) /\ UNCHANGED ret
       ELSE Finish(Returned("central"))
    /\ UNCHANGED <<ctx, log, revert_errors, entry>>
    /\ UNCHANGED <<client_vars, prov_vars, app_vars, bootstrapped>>

CentralReturn ==
    /\ At("central", "return")
    /\ Finish(IF ret.status = "raised" THEN Raised("central", ret.exc)
              ELSE Returned("central"))
    /\ UNCHANGED <<ctx, log, revert_errors, entry>>
    /\ UNCHANGED <<client_vars, prov_vars, app_vars, bootstrapped>>

\* ---------------------------------------------------------------- run_for_multiple
\* original_tenant = self._tenant
RunForMultipleStart ==
    /\ At("run_for_multiple", "start")
    /\ frames' = SetTop([Top EXCEPT !.pc = "loop", !.prev = tenant, !.i = 1])
    /\ UNCHANGED <<ctx, ret, log, revert_errors, entry>>
    /\ UNCHANGED <<client_vars, prov_vars, app_vars, bootstrapped>>

\* for tenant in tenants: await self.initialize(tenant)
RunForMultipleInitialize ==
    /\ At("run_for_multiple", "loop")
    /\ Top.i <= Len(Top.tenants)
    /\ Await("callback", Frame("initialize", Top.tenants[Top.i], <<>>))
    /\ UNCHANGED <<ctx, ret, log, revert_errors, entry>>
    /\ UNCHANGED <<client_vars, prov_vars, app_vars, bootstrapped>>

\* a failed initialize leaves the loop and the function
RunForMultipleInitializeFailed ==
    /\ At("run_for_multiple", "callback")
    /\ ret.status = "raised"
    /\ Finish(Raised("run_for_multiple", ret.exc))
    /\ UNCHANGED <<ctx, log, revert_errors, entry>>
    /\ UNCHANGED <<client_vars, prov_vars, app_vars, bootstrapped>>

\* await callback(tenant): returns (next iteration) or raises out of the function
RunForMultipleCallback ==
    /\ At("run_for_multiple", "callback")
    /\ ret.status = "ok"
    /\ log' = Append(log, Event("callback", 0, Top.tenants[Top.i]))
    /\ \E ok \in BOOLEAN :
        IF ok THEN frames' = SetTop([Top EXCEPT !.pc = "loop", !.i = @ + 1]) /\ UNCHANGED ret
        ELSE Finish(Raised("run_for_multiple", CallbackFailure))
    /\ UNCHANGED <<ctx, revert_errors, entry>>
    /\ UNCHANGED <<client_vars, prov_vars, app_vars, bootstrapped>>

\* variant: after the loop the tenancy is always ended
RunForMultipleRestoreCall_AlwaysEnd(original) == Frame("end", None, <<>>)

\* what is awaited after the loop to restore the original context
RunForMultipleRestoreCall(original) ==
    IF Truthy(original) THEN Frame("initialize", original, <<>>) ELSE Frame("end", None, <<>>)

RunForMultipleRestore ==
    /\ At("run_for_multiple", "loop")
    /\ Top.i > Len(Top.tenants)
    /\ Await("return", RunForMultipleRestoreCall(Top.prev))
    /\ UNCHANGED <<ctx, ret, log, revert_errors, entry>>
    /\ UNCHANGED <<client_vars, prov_vars, app_vars, bootstrapped>>

RunForMultipleReturn ==
    /\ At("run_for_multiple", "return")
    /\ Finish(IF ret.status = "raised" THEN Raised("run_for_multiple", ret.exc)
              ELSE Returned("run_for_multiple"))
    /\ UNCHANGED <<ctx, log, revert_errors, entry>>
    /\ UNCHANGED <<client_vars, prov_vars, app_vars, bootstrapped>>

\* ---------------------------------------------------------------- specification
Next ==
    \/ CallInitialize
    \/ CallEnd
    \/ CallRun
    \/ CallCentral
    \/ CallRunForMultiple
    \/ CallerResumes
    \/ InitializeStart
    \/ InitializeAssign
    \/ InitializeBootstrap
    \/ InitializeExcept
    \/ InitializeDone
    \/ RevertInitializedStep
    \/ RevertInitializedReturn
    \/ EndStart
    \/ EndClear
    \/ RunStart
    \/ RunInitializeFailed
    \/ RunCallback
    \/ RunFinally
    \/ RunReturn
    \/ CentralStart
    \/ CentralCallback
    \/ CentralRestore
    \/ CentralReturn
    \/ RunForMultipleStart
    \/ RunForMultipleInitialize
    \/ RunForMultipleInitializeFailed
    \/ RunForMultipleCallback
    \/ RunForMultipleRestore
    \/ RunForMultipleReturn

Spec == Init /\ [][Next]_all_vars

\* ---------------------------------------------------------------- typing
TypeOK ==
    /\ tenant \in Tenant \cup {None}
    /\ initialized \in BOOLEAN
    /\ \A k \in 1..Len(_initialized_bootstrappers) :
            _initialized_bootstrappers[k] \in 1..NumBootstrappers
    /\ Len(frames) <= 4
    /\ ret.status \in {"none", "ok", "raised"}
    /\ revert_errors \in BOOLEAN
\* ================================================================ properties
\* observation helpers
Shape(l) == [j \in 1..Len(l) |-> <<l[j].ev, l[j].b>>]
Ups(k) == [j \in 1..k |-> <<"up", _bootstrappers[j]>>]
Downs(k) == [j \in 1..k |-> <<"down", _bootstrappers[k + 1 - j]>>]
\* the top-level call of fn has finished and the context is idle again
Finished(fn) == frames = <<>> /\ ret.fn = fn
FinishedOk(fn) == Finished(fn) /\ ret.status = "ok"
FinishedRaised(fn) == Finished(fn) /\ ret.status = "raised"
\* the coroutine fn has just handed its outcome to the code that awaited it
JustFinished(fn) ==
    /\ ret.fn = fn
    /\ \/ frames = <<>>
       \/ Top.pc \in {"after_initialize", "after_finally", "callback",
                      "return", "except", "clear"}
UpEvents(l) == SelectSeq(l, LAMBDA e : e.ev = "up")
CallbackEvents(l) == SelectSeq(l, LAMBDA e : e.ev = "callback")
Last(l) == l[Len(l)]
NoTenantState == tenant = None /\ initialized = FALSE
BackInEntryState == tenant = entry.tenant /\ initialized = entry.initialized
\* the same, with the identity of a tenant being its id (two Tenant objects
\* with one id are the same tenant)
BackInEntryStateById == tenant.id = entry.tenant.id /\ initialized = entry.initialized

\* ---------------------------------------------------------------- C1
\* C1 as stated: whenever initialize raises because the k-th bootstrap
\* raised, the invocations of the whole call are bootstrap on 1..k in order
\* and then revert on k-1..1, and nothing else (no revert on k..N).
C1_AsStated ==
    FinishedRaised("initialize") =>
        Shape(log) = Ups(ret.exc.b) \o Downs(ret.exc.b - 1)

\* C1 amended: when initialize raises because the k-th bootstrap raised, the
\* invocations of the call are: the reverts N..1 that end the previous
\* tenancy if the context was Active for a different tenant (none if it was
\* in NoTenant), then bootstrap on 1..k in order, then revert on k-1..1 in
\* that order; bootstrappers k+1..N are not bootstrapped, and after the
\* first bootstrap of the call neither they nor k are reverted.
C1_FailedInitializeLog ==
    FinishedRaised("initialize") =>
        Shape(log) = (IF entry.initialized THEN Downs(NumBootstrappers) ELSE <<>>)
                     \o Ups(ret.exc.b) \o Downs(ret.exc.b - 1)

\* the 2nd bootstrap of a chain of at least 3 failed, in a switch of tenant
C1_Witness ==
    /\ FinishedRaised("initialize")
    /\ ret.exc.b = 2
    /\ entry.initialized

\* ---------------------------------------------------------------- C2
\* C2: whenever an initialize fails (as top-level call or awaited by run,
\* central or run_for_multiple; from NoTenant or from Active; with or
\* without failing reverts), what it raises is the failure of the last
\* bootstrap that was invoked, and the context is in NoTenant.
C2_FailedInitializeEndsInNoTenant ==
    (JustFinished("initialize") /\ ret.status = "raised") =>
        /\ UpEvents(log) # <<>>
        /\ ret.exc = BootstrapFailure(Last(UpEvents(log)).b)
        /\ NoTenantState

\* a switch of tenant failed at a bootstrapper after the first one, and
\* reverts failed as well
C2_Witness ==
    /\ FinishedRaised("initialize")
    /\ entry.initialized
    /\ ret.exc.b >= 2
    /\ revert_errors

\* ---------------------------------------------------------------- C3
\* C3 as stated: whenever run finishes, the context is back in the state
\* it had when run was called.
C3_AsStated == Finished("run") => BackInEntryState

\* C3 amended: when run finishes, the context is back in the state P it had
\* before the call, except when a tenant p was active before the call and a
\* bootstrap raises during the re-initialization of p in the finally block:
\* then run raises that bootstrap failure and the context is in NoTenant.
C3_RunRestoresUnlessRestoreFails ==
    Finished("run") =>
        \/ BackInEntryState
        \/ /\ entry.initialized
           /\ NoTenantState
           /\ ret.status = "raised"
           /\ ret.exc.kind = "bootstrap"
           /\ Last(UpEvents(log)).arg = entry.tenant

\* run for another tenant than the active one, the callback raised, and the
\* previous tenant is active again
C3_Witness ==
    /\ FinishedRaised("run")
    /\ ret.exc = CallbackFailure
    /\ entry.initialized
    /\ entry.arg.id # entry.tenant.id
    /\ BackInEntryState
\* ---------------------------------------------------------------- C4
\* C4: with N bootstrappers that all succeed, initialize from NoTenant
\* invokes exactly bootstrap on 1..N in order and leaves 1..N on the stack,
\* and the end() that follows invokes exactly revert on N..1 in order.
C4_InitializeThenEndLog ==
    /\ (FinishedOk("initialize") /\ ~entry.initialized) =>
            /\ Shape(log) = Ups(NumBootstrappers)
            /\ _initialized_bootstrappers = _bootstrappers
    /\ initialized => _initialized_bootstrappers = _bootstrappers
    /\ (Finished("end") /\ entry.initialized) =>
            /\ entry.stack = _bootstrappers
            /\ Shape(log) = Downs(NumBootstrappers)

\* end() has finished on a context that was Active
C4_Witness ==
    /\ FinishedOk("end")
    /\ entry.initialized
    /\ Len(log) = NumBootstrappers

\* ---------------------------------------------------------------- C5
\* C5: initialize(t) on a context that is Active for a tenant with the id
\* of t invokes no bootstrap and no revert and leaves tenant, initialized
\* and the stack as they were.
C5_SameTenantInitializeIsNoop ==
    (Finished("initialize") /\ entry.initialized /\ entry.arg.id = entry.tenant.id) =>
        /\ log = <<>>
        /\ ret.status = "ok"
        /\ BackInEntryState
        /\ _initialized_bootstrappers = entry.stack

\* called with another Tenant object that carries the id of the active one
C5_Witness ==
    /\ Finished("initialize")
    /\ entry.initialized
    /\ entry.arg.id = entry.tenant.id
    /\ entry.arg # entry.tenant

\* ---------------------------------------------------------------- C6
\* C6: in initialize(t2) on a context Active for t1 with another id, the
\* first invocations are the reverts of t1's stack in reverse order, made
\* while t1 is still the current tenant; every bootstrap comes after them
\* and is given t2, the first one being bootstrapper 1; if initialize
\* returns, the context is Active for t2.
SwitchCall ==
    /\ entry.fn = "initialize"
    /\ entry.initialized
    /\ entry.arg.id # entry.tenant.id

C6_SwitchRevertsBeforeBootstrap ==
    SwitchCall =>
        LET L == Len(entry.stack) IN
        /\ \A j \in 1..Len(log) :
            /\ j <= L => /\ log[j].ev = "down"
                         /\ log[j].b = entry.stack[L + 1 - j]
                         /\ log[j].cur = entry.tenant
            /\ (j > L /\ log[j].ev = "up") => log[j].arg = entry.arg
            /\ j = L + 1 => log[j].ev = "up" /\ log[j].b = _bootstrappers[1]
        /\ Finished("initialize") => Len(log) > L
        /\ FinishedOk("initialize") => tenant = entry.arg /\ initialized

\* a switch from one tenant to another one has succeeded
C6_Witness ==
    /\ SwitchCall
    /\ FinishedOk("initialize")
    /\ Len(entry.stack) = NumBootstrappers

\* ---------------------------------------------------------------- C7
\* C7: whenever _revert_initialized has walked the stack (on the way out of
\* end, of the rollback of a failed initialize, or of a switch), revert has
\* been invoked on every bootstrapper of the stack, in reverse order,
\* whether or not some of these reverts raised; it returns normally, and no
\* operation ever raises a revert failure.
RevertedAll ==
    LET L == Len(_initialized_bootstrappers) IN
    /\ Len(log) >= L
    /\ \A j \in 1..L :
        /\ log[Len(log) - L + j].ev = "down"
        /\ log[Len(log) - L + j].b = _initialized_bootstrappers[L + 1 - j]
RevertLoopDone ==
    At("_revert_initialized", "start") /\ Top.i >= Len(_initialized_bootstrappers)
JustReverted ==
    /\ frames # <<>>
    /\ Top.pc \in {"except", "clear"}

C7_RevertFailureIsIsolated ==
    /\ RevertLoopDone => RevertedAll
    /\ JustReverted => /\ ret = Returned("_revert_initialized")
                       /\ RevertedAll
    /\ ret.exc.kind # "revert"

\* the revert of the bootstrapper on top of a stack of at least two raised,
\* and the walk is over
C7_Witness ==
    /\ RevertLoopDone
    /\ Len(_initialized_bootstrappers) >= 2
    /\ RevertFailure(Last(_initialized_bootstrappers)) \in Top.errors

\* ---------------------------------------------------------------- C8
\* C8: end() on a context in NoTenant invokes nothing and changes nothing;
\* every end(), top-level or awaited by another operation, returns normally
\* and leaves the context in NoTenant, whatever its reverts did.
C8_EndLeavesNoTenant ==
    /\ (Finished("end") /\ ~entry.initialized) =>
            /\ log = <<>>
            /\ tenant = entry.tenant
            /\ _initialized_bootstrappers = entry.stack
    /\ JustFinished("end") => ret.status = "ok" /\ NoTenantState

\* end() on an Active context in which a revert raised
C8_Witness ==
    /\ Finished("end")
    /\ entry.initialized
    /\ revert_errors

\* ---------------------------------------------------------------- C9
\* C9: central invokes its callback at most once, after the reverts of the
\* stack of the tenancy it ended and with initialized false and no current
\* tenant, and gives it the tenant that was current before the call (None
\* if there was none); when the callback has returned and a tenant was
\* active before, bootstrap of bootstrapper 1 for that tenant is the next
\* invocation; when central returns, the context is in the state it had
\* before the call.  (central returns only if that re-initialization
\* succeeded: a bootstrap that raises in it makes central raise.)
C9_CentralOrder ==
    entry.fn = "central" =>
        LET L == IF entry.initialized THEN Len(entry.stack) ELSE 0 IN
        /\ \A j \in 1..Len(log) :
            /\ j <= L => log[j].ev = "down"
            /\ j = L + 1 => /\ log[j].ev = "callback"
                            /\ log[j].arg = entry.tenant
                            /\ log[j].cur = None
                            /\ log[j].init = FALSE
            /\ j = L + 2 => log[j] = [ev |-> "up", b |-> _bootstrappers[1],
                                      arg |-> entry.tenant, cur |-> entry.tenant,
                                      init |-> FALSE]
            /\ j > L + 1 => log[j].ev # "callback"
        /\ Finished("central") => Len(log) >= L + 1
        /\ (Finished("central") /\ ret.exc # CallbackFailure /\ entry.initialized) =>
                Len(log) >= L + 2
        /\ FinishedOk("central") => BackInEntryState

\* central has returned on a context that was Active
C9_Witness ==
    /\ FinishedOk("central")
    /\ entry.initialized
    /\ initialized

\* ---------------------------------------------------------------- C10
\* C10: the callbacks invoked by run_for_multiple(tenants, callback) are
\* given the elements of tenants in order, one each, every one with the
\* context initialized for the tenant of that element; when
\* run_for_multiple returns, the callback has been invoked for every
\* element and the context is in the state it had before the call: Active
\* for the original tenant, or NoTenant.  A tenant is identified by its id:
\* initialize keeps the current Tenant object when it is given another
\* object with the same id.
C10_RunForMultipleVisitsAndRestores ==
    entry.fn = "run_for_multiple" =>
        LET cbs == CallbackEvents(log) IN
        /\ Len(cbs) <= Len(entry.args)
        /\ \A j \in 1..Len(cbs) :
            /\ cbs[j].arg = entry.args[j]
            /\ cbs[j].init
            /\ cbs[j].cur.id = cbs[j].arg.id
        /\ FinishedOk("run_for_multiple") =>
            /\ Len(cbs) = Len(entry.args)
            /\ BackInEntryStateById
            /\ tenant = None <=> ~initialized

\* run_for_multiple over two tenants with different ids has returned on a
\* context that was Active
C10_Witness ==
    /\ FinishedOk("run_for_multiple")
    /\ entry.initialized
    /\ Len(entry.args) >= 2
    /\ entry.args[1].id # entry.args[2].id
\* ---------------------------------------------------------------- C11
\* C11: when the callback of run has raised, what run raises to its caller
\* is that callback failure, also when the restoration of the previous
\* context fails afterwards.
C11_CallbackFailureNotMasked ==
    [][(At("run", "after_finally") /\ Top.exc = CallbackFailure)
            => ret' = Raised("run", CallbackFailure)]_vars

\* ---------------------------------------------------------------- C12
IsPrefix(s, t) == Len(s) <= Len(t) /\ \A k \in 1..Len(s) : s[k] = t[k]

\* C12 as stated: in every reachable state, initialized is true exactly
\* when the current tenant is set and the stack is the prefix of the
\* configured chain whose bootstrap has completed.
C12_AsStated ==
    initialized <=> (tenant # None /\ IsPrefix(_initialized_bootstrappers, _bootstrappers))

\* C12 amended: in every reachable state, initialized true implies that
\* the current tenant is set and the stack is the whole configured chain;
\* the tenant is set with initialized false only while the bootstrap loop
\* of an initialize (or its rollback) is in progress, and the stack is then
\* the prefix of the chain bootstrapped so far; whenever no operation is in
\* progress, initialized is true exactly when the tenant is set.
InitializeInProgress ==
    \E k \in 1..Len(frames) :
        frames[k].fn = "initialize" /\ frames[k].pc \in {"loop", "except"}

C12_InitializedImpliesFullStack ==
    /\ initialized => /\ tenant # None
                      /\ _initialized_bootstrappers = _bootstrappers
    /\ (tenant # None /\ ~initialized) =>
            /\ InitializeInProgress
            /\ IsPrefix(_initialized_bootstrappers, _bootstrappers)
    /\ frames = <<>> => (initialized <=> tenant # None)

\* between two bootstrapper steps of an initialize in progress
C12_Witness ==
    /\ At("initialize", "loop")
    /\ tenant # None
    /\ ~initialized
    /\ Len(_initialized_bootstrappers) >= 1
    /\ Len(_initialized_bootstrappers) < NumBootstrappers

\* ---------------------------------------------------------------- C31
\* the context is in the state that run / central / run_for_multiple found
\* when it saved prev: Active for that tenant, or NoTenant
RestoredTo(prev) ==
    IF prev = None THEN NoTenantState
    ELSE tenant # None /\ tenant.id = prev.id /\ initialized

\* C31 as stated: run starts its callback only after initialize(t) has
\* returned, with the context Active for t; when initialize(t) has raised,
\* no callback is invoked, and run ends with the previous context restored
\* and raises that initialize failure.
C31_AsStated ==
    [][/\ (At("run", "after_initialize") /\ log' # log) =>
                /\ ret.status = "ok"
                /\ tenant # None /\ tenant.id = Top.tenant.id
                /\ initialized
       /\ (At("run", "after_initialize") /\ ret.status = "raised") => log' = log
       /\ (At("run", "after_finally") /\ Top.exc.kind = "bootstrap") =>
                /\ CallbackEvents(log) = <<>>
                /\ ret' = Raised("run", Top.exc)
                /\ RestoredTo(Top.prev)
      ]_vars

\* ---------------------------------------------------------------- C32
\* C32: over any sequence of calls, a bootstrap completes only for a
\* bootstrapper that is not up (never bootstrapped, or reverted since its
\* latest completed bootstrap), a revert is invoked only on a bootstrapper
\* that is up, and whenever no call is in progress and the context is in
\* NoTenant no bootstrapper is up.
C32_BootstrapsAndRevertsAlternate ==
    [][/\ (At("initialize", "loop") /\ log' # log /\ Len(frames') = Len(frames)) =>
                /\ Last(log').ev = "up"
                /\ Last(log').b \notin bootstrapped
                /\ Last(log').b \in bootstrapped'
       /\ (At("_revert_initialized", "start") /\ log' # log) =>
                /\ Last(log').ev = "down"
                /\ Last(log').b \in bootstrapped
                /\ Last(log').b \notin bootstrapped'
       /\ (frames' = <<>> /\ tenant' = None /\ ~initialized') => bootstrapped' = {}
      ]_vars

\* a switch from an active tenant has failed at the second bootstrapper or
\* later: the previous chain was reverted, a prefix was bootstrapped again
\* and reverted again
C32_Witness ==
    /\ FinishedRaised("initialize")
    /\ entry.initialized
    /\ ret.exc.b >= 2
    /\ NoTenantState
    /\ bootstrapped = {}

\* ---------------------------------------------------------------- C33
\* C33 as stated: whenever central finishes, by returning or by raising,
\* a context that was Active for a tenant before the call is Active for
\* that tenant again.
C33_AsStated ==
    (Finished("central") /\ entry.initialized) => RestoredTo(entry.tenant)

\* ---------------------------------------------------------------- C34
\* C34 as stated: whenever run_for_multiple finishes, by returning or by
\* raising, the context is in the state it had before the call: Active for
\* the tenant that was active then, or NoTenant.
C34_AsStated ==
    Finished("run_for_multiple") =>
        IF entry.initialized THEN RestoredTo(entry.tenant) ELSE NoTenantState

\* ======================================================== GatewayClient
\* clawdesk/openclaw/client.py: one WebSocket connection shared by the
\* concurrent callers of _request, a reader task that resolves the pending
\* futures by request id, and disconnect.  Every await of the source is a
\* point where the other tasks can run; the code between two awaits is one
\* step.  Futures, tasks and connections are objects: one that nothing
\* refers to any more is forgotten and its slot is used again.

Callers == {"a", "b"}

NoConnection == 0
NoTask == 0

\* a connection handed out by websockets.connect, with the request ids the
\* gateway has received on it
Connection(st) == [state |-> st, received |-> {}]
FreeConnection == Connection("free")
ConnectionStates == {"free", "connecting", "open", "closed_clean", "closed_abnormal", "failed"}
Closed(k) == conns[k].state \in {"closed_clean", "closed_abnormal"}

\* a raw frame sent by the gateway: a response object carries the id of the
\* request it answers and the payload computed for that request
FrameKinds == {"result", "error", "baderror", "unparseable", "noid", "nonobject"}
WithId == {"result", "error", "baderror"}
Message(kind, id) == [kind |-> kind, id |-> id, payload |-> id]

\* asyncio futures
PendingFuture == [state |-> "pending", payload |-> 0, error |-> "none"]
ResultFuture(p) == [state |-> "result", payload |-> p, error |-> "none"]
ExceptionFuture(e) == [state |-> "exception", payload |-> 0, error |-> e]
RemoteFailure(p) == [state |-> "exception", payload |-> p, error |-> "rpc"]
CancelledFuture == [state |-> "cancelled", payload |-> 0, error |-> "none"]
Done(f) == f.state # "pending"

\* asyncio tasks running _read_loop, with the connection the loop iterates
ReaderTask(st, k) == [state |-> st, conn |-> k]
FreeTask == ReaderTask("free", NoConnection)
Alive(t) == tasks[t].state \in {"created", "running"}

\* a caller of _request
Idle == [pc |-> "idle", req_id |-> 0, ws |-> NoConnection]

\* what the step just taken let its caller or the reader see: the outcome
\* of a call of _request, the frame the reader handled, the return of
\* disconnect
Observation(ev, c, id, kind, p) ==
    [ev |-> ev, caller |-> c, id |-> id, kind |-> kind, payload |-> p]
Nothing == Observation("none", "none", 0, "none", 0)
Outcome(c, kind, p) == Observation("returned", c, callers[c].req_id, kind, p)
Handled(msg) == Observation("frame", "none", msg.id, msg.kind, msg.payload)
Disconnected(how) == Observation(how, "none", 0, "none", 0)

connected == _ws # NoConnection

\* the lowest free slot of a table of objects
HasFree(f) == \E k \in DOMAIN f : f[k].state = "free"
NewSlot(f) == CHOOSE k \in DOMAIN f :
                    f[k].state = "free" /\ \A j \in DOMAIN f : j < k => f[j].state # "free"

\* a future lives as long as the table or a caller's frame refers to it
Referenced(fut, pend, cs) ==
    [i \in DOMAIN fut \cap (pend \cup {cs[c].req_id : c \in Callers}) |-> fut[i]]

\* a task lives until it has ended and self._reader_task has let go of it
KeepTasks(ts, rt) ==
    [t \in DOMAIN ts |->
        IF ts[t].state \in {"created", "running"} \/ t = rt THEN ts[t] ELSE FreeTask]

\* a connection lives as long as self._ws, a caller, disconnect or a running
\* reader refers to it
KeepConnections(cn, ws, cs, d, ts) ==
    [k \in DOMAIN cn |->
        IF k \in {ws, d.ws} \cup {cs[c].ws : c \in Callers}
                            \cup {ts[t].conn : t \in DOMAIN ts}
        THEN cn[k] ELSE FreeConnection]

\* ------------------------------------------------------------- _request

NextRequestId_Reuses(n) == IF n = 0 THEN 1 ELSE n

\* self._request_id += 1
NextRequestId(n) == n + 1

\* the calls that will still allocate a request id
Connecting == {c \in Callers : callers[c].pc = "connect"}
MayStartCall == _request_id + Cardinality(Connecting) < MaxRequests

\* _request from the allocation of the id to the await of send, for caller c
\* on the connection k that self._ws holds
Register(c, k) ==
    LET id == NextRequestId(_request_id) IN
    /\ _request_id' = id
    /\ _pending' = _pending \cup {id}
    /\ issued' = Append(issued, id)
    /\ callers' = [callers EXCEPT ![c] =
                        [pc |-> "send", req_id |-> id, ws |-> k]]
    /\ futures' = Referenced([i \in DOMAIN futures \cup {id} |->
                                    IF i = id THEN PendingFuture ELSE futures[i]],
                              _pending', callers')

\* _request when connect returns at once because self._ws is set
RequestOnConnection ==
    \E c \in Callers :
        /\ callers[c].pc = "idle"
        /\ MayStartCall
        /\ _ws # NoConnection
        /\ Register(c, _ws)
        /\ UNCHANGED <<_ws, _reader_task, disc, tasks, conns>>
        /\ observed' = Nothing
        /\ UNCHANGED <<vars, prov_vars, app_vars>>

\* _request when self._ws is None: connect awaits websockets.connect
ConnectStart ==
    \E c \in Callers :
        /\ callers[c].pc = "idle"
        /\ MayStartCall
        /\ _ws = NoConnection
        /\ HasFree(conns)
        /\ conns' = [conns EXCEPT ![NewSlot(conns)] = Connection("connecting")]
        /\ callers' = [callers EXCEPT ![c] =
                            [pc |-> "connect", req_id |-> 0, ws |-> NewSlot(conns)]]
        /\ UNCHANGED <<_ws, _request_id, _pending, _reader_task, futures, disc,
                       tasks, issued>>
        /\ observed' = Nothing
        /\ UNCHANGED <<vars, prov_vars, app_vars>>

\* websockets.connect returns: connect stores the connection and creates the
\* reader task, and _request goes on to the await of send
ConnectEstablished ==
    \E c \in Callers :
        /\ callers[c].pc = "connect"
        /\ HasFree(KeepTasks(tasks, NoTask))
        /\ LET k == callers[c].ws
               t == NewSlot(KeepTasks(tasks, NoTask))
           IN
            /\ _ws' = k
            /\ _reader_task' = t
            /\ tasks' = [KeepTasks(tasks, NoTask) EXCEPT ![t] =
                                ReaderTask("created", NoConnection)]
            /\ Register(c, k)
            /\ UNCHANGED disc
            /\ conns' = KeepConnections([conns EXCEPT ![k].state = "open"],
                                        _ws', callers', disc', tasks')
        /\ observed' = Nothing
        /\ UNCHANGED <<vars, prov_vars, app_vars>>

\* websockets.connect fails or connect_timeout elapses
ConnectFailed ==
    \E c \in Callers :
        /\ callers[c].pc = "connect"
        /\ callers' = [callers EXCEPT ![c] = Idle]
        /\ observed' = Outcome(c, "connect_failed", 0)
        /\ conns' = [conns EXCEPT ![callers[c].ws] = FreeConnection]
        /\ UNCHANGED <<_ws, _request_id, _pending, _reader_task, futures, disc,
                       tasks, issued>>
        /\ UNCHANGED <<vars, prov_vars, app_vars>>

\* await self._ws.send(...) on an open connection
SendDone ==
    \E c \in Callers :
        /\ callers[c].pc = "send"
        /\ conns[callers[c].ws].state = "open"
        /\ callers' = [callers EXCEPT ![c].pc = "wait", ![c].ws = NoConnection]
        /\ UNCHANGED <<_ws, disc, tasks>>
        /\ conns' = KeepConnections(
                [conns EXCEPT ![callers[c].ws].received = @ \cup {callers[c].req_id}],
                _ws', callers', disc', tasks')
        /\ UNCHANGED <<_request_id, _pending, _reader_task, futures, issued>>
        /\ observed' = Nothing
        /\ UNCHANGED <<vars, prov_vars, app_vars>>

\* await self._ws.send(...) on a closed connection raises ConnectionClosed
SendFailed ==
    \E c \in Callers :
        /\ callers[c].pc = "send"
        /\ conns[callers[c].ws].state # "open"
        /\ callers' = [callers EXCEPT ![c] = Idle]
        /\ observed' = Outcome(c, "send_failed", 0)
        /\ UNCHANGED <<_ws, disc, tasks>>
        /\ conns' = KeepConnections(conns, _ws', callers', disc', tasks')
        /\ futures' = Referenced(futures, _pending, callers')
        /\ UNCHANGED <<_request_id, _pending, _reader_task, issued>>
        /\ UNCHANGED <<vars, prov_vars, app_vars>>

\* variant: the exception of a future is dropped and the call returns nothing
FutureOutcome_DropsError(c, f) ==
    IF f.state = "result" THEN Outcome(c, "result", f.payload) ELSE Nothing

\* what the caller gets from a future that is done
FutureOutcome(c, f) ==
    IF f.state = "result" THEN Outcome(c, "result", f.payload)
    ELSE IF f.error = "rpc" THEN Outcome(c, "rpc_error", f.payload)
    ELSE Outcome(c, "closed", 0)

\* await asyncio.wait_for(future, ...) when the future has a result or an
\* exception
WaitDone ==
    \E c \in Callers :
        /\ callers[c].pc = "wait"
        /\ futures[callers[c].req_id].state \in {"result", "exception"}
        /\ callers' = [callers EXCEPT ![c] = Idle]
        /\ observed' = FutureOutcome(c, futures[callers[c].req_id])
        /\ futures' = Referenced(futures, _pending, callers')
        /\ UNCHANGED <<_ws, _request_id, _pending, _reader_task, disc,
                       tasks, conns, issued>>
        /\ UNCHANGED <<vars, prov_vars, app_vars>>

TimedOut_CancelsAll(fut, id) ==
    [i \in DOMAIN fut |-> IF Done(fut[i]) THEN fut[i] ELSE CancelledFuture]

\* wait_for cancels the future it was waiting for when the timeout elapses
TimedOut(fut, id) ==
    [fut EXCEPT ![id] = IF Done(@) THEN @ ELSE CancelledFuture]

PopOwn_Keeps(pending, id) == pending

\* self._pending.pop(req_id, None) of the timeout handler
PopOwn(pending, id) == pending \ {id}

\* request_timeout elapses before the caller has been resumed: wait_for
\* cancels the future if it is not done, the handler removes the caller's own
\* entry and TimeoutError is raised
WaitTimeout ==
    \E c \in Callers :
        /\ callers[c].pc = "wait"
        /\ callers' = [callers EXCEPT ![c] = Idle]
        /\ observed' = Outcome(c, "timeout", 0)
        /\ LET id == callers[c].req_id IN
            /\ _pending' = PopOwn(_pending, id)
            /\ futures' = Referenced(TimedOut(futures, id), _pending', callers')
        /\ UNCHANGED <<_ws, _request_id, _reader_task, disc, tasks, conns,
                       issued>>
        /\ UNCHANGED <<vars, prov_vars, app_vars>>

\* ----------------------------------------------------------- _reject_all

\* every future of the table that is not done gets the exception
RejectedFutures ==
    [i \in DOMAIN futures |->
        IF i \in _pending /\ ~Done(futures[i])
        THEN ExceptionFuture("closed") ELSE futures[i]]

RejectAll ==
    /\ futures' = Referenced(RejectedFutures, {}, callers)
    /\ _pending' = {}

\* ------------------------------------------------------------ _read_loop

\* the reader task runs for the first time: the loop iterates over the
\* connection self._ws holds at that moment; a connection that another
\* reader is receiving from refuses a second receiver
ReaderStart ==
    \E t \in DOMAIN tasks :
        /\ tasks[t].state = "created"
        /\ UNCHANGED <<_ws, _reader_task, callers, disc>>
        /\ tasks' = KeepTasks(
                [tasks EXCEPT ![t] =
                    IF _ws = NoConnection
                        \/ \E u \in DOMAIN tasks :
                                tasks[u].state = "running" /\ tasks[u].conn = _ws
                    THEN ReaderTask("crashed", NoConnection)
                    ELSE ReaderTask("running", _ws)],
                _reader_task')
        /\ conns' = KeepConnections(conns, _ws', callers', disc', tasks')
        /\ UNCHANGED <<_request_id, _pending, futures, issued>>
        /\ observed' = Nothing
        /\ UNCHANGED <<vars, prov_vars, app_vars>>

Matching_Oldest(pending, msg) ==
    IF pending = {} THEN {} ELSE {CHOOSE i \in pending : \A j \in pending : i <= j}

\* self._pending.pop(msg_id, None): the entry a response object resolves
Matching(pending, msg) == pending \cap {msg.id}

Resolve_IgnoresError(msg, f) ==
    IF msg.kind \in {"result", "error"} THEN ResultFuture(msg.payload) ELSE f

\* what the loop does to the future it has popped: an error object fails it
\* with the remote message, a frame without error gives it the result; the
\* use of an error field that is not an object raises before the future is
\* touched
Resolve(msg, f) ==
    CASE msg.kind = "error" -> RemoteFailure(msg.payload)
      [] msg.kind = "result" -> ResultFuture(msg.payload)
      [] OTHER -> f

\* a raw frame of the gateway reaches the loop: one iteration.  The gateway
\* answers a request it has received on the connection, once or again, or
\* sends a frame that is not a response object
ReaderMessage ==
    \E t \in DOMAIN tasks, kind \in FrameKinds :
        /\ tasks[t].state = "running"
        /\ conns[tasks[t].conn].state = "open"
        /\ UNCHANGED <<_ws, _reader_task, callers, disc>>
        /\ \E id \in IF kind \in WithId THEN conns[tasks[t].conn].received ELSE {0} :
            LET msg == Message(kind, id)
                hit == IF msg.kind \in WithId THEN Matching(_pending, msg) ELSE {}
            IN
            /\ observed' = Handled(msg)
            /\ _pending' = _pending \ hit
            /\ futures' = Referenced(
                    [i \in DOMAIN futures |->
                        IF i \in hit /\ ~Done(futures[i])
                        THEN Resolve(msg, futures[i]) ELSE futures[i]],
                    _pending', callers)
            /\ tasks' = KeepTasks(
                    IF \/ msg.kind = "nonobject"
                       \/ msg.kind = "baderror" /\ hit # {}
                    THEN [tasks EXCEPT ![t] = ReaderTask("crashed", NoConnection)]
                    ELSE tasks,
                    _reader_task')
        /\ conns' = KeepConnections(conns, _ws', callers', disc', tasks')
        /\ UNCHANGED <<_request_id, issued>>
        /\ UNCHANGED <<vars, prov_vars, app_vars>>

\* the iteration finds the connection closed: an abnormal close raises
\* ConnectionClosed into the loop, a clean close ends the iteration
ReaderClosed ==
    \E t \in DOMAIN tasks :
        /\ tasks[t].state = "running"
        /\ Closed(tasks[t].conn)
        /\ UNCHANGED <<_ws, _reader_task, callers, disc>>
        /\ tasks' = KeepTasks([tasks EXCEPT ![t] = ReaderTask("finished", NoConnection)],
                              _reader_task')
        /\ IF conns[tasks[t].conn].state = "closed_abnormal"
           THEN RejectAll
           ELSE UNCHANGED <<futures, _pending>>
        /\ conns' = KeepConnections(conns, _ws', callers', disc', tasks')
        /\ UNCHANGED <<_request_id, issued>>
        /\ observed' = Nothing
        /\ UNCHANGED <<vars, prov_vars, app_vars>>

\* ------------------------------------------------------------ disconnect

\* disconnect when self._ws is None
DisconnectNoop ==
    /\ disc.pc = "idle"
    /\ _ws = NoConnection
    /\ observed' = Disconnected("noop")
    /\ UNCHANGED <<_ws, _request_id, _pending, _reader_task, futures, callers,
                   disc, tasks, conns, issued>>
    /\ UNCHANGED <<vars, prov_vars, app_vars>>

\* disconnect up to the await of self._ws.close()
DisconnectStart ==
    /\ disc.pc = "idle"
    /\ _ws # NoConnection
    /\ _reader_task' = NoTask
    /\ tasks' = KeepTasks(
            IF _reader_task # NoTask /\ Alive(_reader_task)
            THEN [tasks EXCEPT ![_reader_task] = ReaderTask("cancelled", NoConnection)]
            ELSE tasks,
            _reader_task')
    /\ disc' = [pc |-> "close", ws |-> _ws]
    /\ UNCHANGED <<_ws, callers>>
    /\ conns' = KeepConnections(conns, _ws', callers', disc', tasks')
    /\ UNCHANGED <<_request_id, _pending, futures, issued>>
    /\ observed' = Nothing
    /\ UNCHANGED <<vars, prov_vars, app_vars>>

\* inside close(): the connection stops being open
DisconnectClose ==
    /\ disc.pc = "close"
    /\ conns[disc.ws].state = "open"
    /\ conns' = [conns EXCEPT ![disc.ws] = Connection("closed_clean")]
    /\ UNCHANGED <<_ws, _request_id, _pending, _reader_task, futures, callers,
                   disc, tasks, issued>>
    /\ observed' = Nothing
    /\ UNCHANGED <<vars, prov_vars, app_vars>>

\* close() returns: disconnect clears self._ws and rejects what is pending
DisconnectFinish ==
    /\ disc.pc = "close"
    /\ conns[disc.ws].state # "open"
    /\ _ws' = NoConnection
    /\ RejectAll
    /\ disc' = [pc |-> "idle", ws |-> NoConnection]
    /\ UNCHANGED <<callers, tasks>>
    /\ conns' = KeepConnections(conns, _ws', callers', disc', tasks')
    /\ UNCHANGED <<_request_id, _reader_task, issued>>
    /\ observed' = Disconnected("disconnected")
    /\ UNCHANGED <<vars, prov_vars, app_vars>>

\* --------------------------------------------------------------- gateway

\* the peer closes the connection, cleanly or not
GatewayCloses ==
    \E k \in DOMAIN conns, how \in {"closed_clean", "closed_abnormal"} :
        /\ conns[k].state = "open"
        /\ conns' = [conns EXCEPT ![k] = Connection(how)]
        /\ UNCHANGED <<_ws, _request_id, _pending, _reader_task, futures, callers,
                       disc, tasks, issued>>
        /\ observed' = Nothing
        /\ UNCHANGED <<vars, prov_vars, app_vars>>

ClientNext ==
    \/ RequestOnConnection
    \/ ConnectStart
    \/ ConnectEstablished
    \/ ConnectFailed
    \/ SendDone
    \/ SendFailed
    \/ WaitDone
    \/ WaitTimeout
    \/ ReaderStart
    \/ ReaderMessage
    \/ ReaderClosed
    \/ DisconnectNoop
    \/ DisconnectStart
    \/ DisconnectClose
    \/ DisconnectFinish
    \/ GatewayCloses

ClientSpec == Init /\ [][ClientNext]_all_vars

\* caller c is resumed from `await asyncio.wait_for(future, timeout=...)`,
\* with the outcome of the future or with the timeout
Resumed(c) ==
    /\ callers[c].pc = "wait"
    /\ WaitDone \/ WaitTimeout
    /\ callers'[c].pc = "idle"

\* the event loop resumes every waiting caller: the future is done, or the
\* timer of wait_for fires after request_timeout
ClientFairSpec == ClientSpec /\ \A c \in Callers : WF_all_vars(Resumed(c))

ClientTypeOK ==
    /\ _ws \in {NoConnection} \cup DOMAIN conns
    /\ _request_id \in 0..MaxRequests
    /\ _pending \subseteq DOMAIN futures
    /\ DOMAIN futures = _pending \cup ({callers[c].req_id : c \in Callers} \ {0})
    /\ _reader_task \in {NoTask} \cup DOMAIN tasks
    /\ \A i \in DOMAIN futures :
            futures[i].state \in {"pending", "result", "exception", "cancelled"}
    /\ \A c \in Callers :
            callers[c].pc \in {"idle", "connect", "send", "wait"}
    /\ disc.pc \in {"idle", "close"}
    /\ \A t \in DOMAIN tasks :
            tasks[t].state \in {"free", "created", "running", "finished", "crashed"}
    /\ \A k \in DOMAIN conns : conns[k].state \in ConnectionStates
    /\ observed.ev \in {"none", "returned", "frame", "disconnected", "noop"}


\* ------------------------------------------------- claims on GatewayClient

\* the variables of the client itself
client == <<_ws, _request_id, _pending, _reader_task>>

ReturnedWith(kind) == observed.ev = "returned" /\ observed.kind = kind
Waiting(c) == callers[c].pc = "wait"

\* C13: a call that returns a result returns the payload of the response
\* frame that carries its own request id, and a future is only ever resolved
\* with the payload of the frame that carries its id, in whatever order the
\* gateway answers the calls in flight on the connection.
C13_ResponsesMatchedById ==
    /\ \A i \in DOMAIN futures :
            futures[i].state = "result" => futures[i].payload = i
    /\ ReturnedWith("result") => observed.payload = observed.id

\* the second of two calls in flight on one connection has returned its own
\* result while the first is still waiting for its response
C13_Witness ==
    /\ ReturnedWith("result") /\ observed.id = 2 /\ observed.payload = 2
    /\ _ws # NoConnection /\ conns[_ws].received = {1, 2}
    /\ \E c \in Callers : /\ Waiting(c) /\ callers[c].req_id = 1
                          /\ futures[1].state = "pending"

\* C14: the request ids are strictly increasing in the order in which they
\* are allocated, no two calls have the same id, and no entry of the pending
\* table has an id that was not allocated.
C14_IdsIncreaseAndAreUnique ==
    /\ \A i, j \in 1..Len(issued) : i < j => issued[i] < issued[j]
    /\ \A c, d \in Callers :
            (c # d /\ callers[c].req_id # 0) => callers[c].req_id # callers[d].req_id
    /\ \A i \in _pending : i \in 1.._request_id
    /\ Len(issued) = _request_id

\* two calls wait at the same time, the one that allocated its id last
\* being caller "a"
C14_Witness ==
    /\ Waiting("a") /\ Waiting("b")
    /\ callers["a"].req_id = 2 /\ callers["b"].req_id = 1
    /\ _pending = {1, 2}

\* C15: at most one connection attempt is in flight at any time: a call
\* that arrives while a connection is being established does not open a
\* second one.
C15_AsStated ==
    Cardinality({c \in Callers : callers[c].pc = "connect"}) <= 1

\* C16: the step in which a call times out removes from the pending table
\* the entry of that call and no other, and leaves every other future and
\* every other caller as they were; the step in which the reader handles a
\* response whose id has no entry in the table changes nothing and the
\* reader goes on.
C16_TimeoutAffectsOnlyOwnCall ==
    [][/\ (observed'.ev = "returned" /\ observed'.kind = "timeout") =>
            /\ _pending' = _pending \ {observed'.id}
            /\ \A i \in DOMAIN futures \ {observed'.id} :
                    i \in DOMAIN futures' /\ futures'[i] = futures[i]
            /\ \A c \in Callers \ {observed'.caller} : callers'[c] = callers[c]
       /\ (/\ observed'.ev = "frame"
           /\ observed'.kind \in WithId
           /\ observed'.id \notin _pending) =>
            UNCHANGED <<client, futures, callers, disc, tasks, conns>>
      ]_all_vars

\* a call has just timed out while the other call is pending
C16_Witness ==
    /\ ReturnedWith("timeout")
    /\ \E c \in Callers \ {observed.caller} :
            /\ Waiting(c)
            /\ callers[c].req_id \in _pending
            /\ futures[callers[c].req_id].state = "pending"

\* C17: the step in which a response resolves a call, and the step in which
\* a call times out, remove from the pending table exactly the entry with
\* the id of that call; a future that has a result, a remote error or was
\* cancelled by its timeout has no entry in the table.
Resolved(f) ==
    \/ f.state \in {"result", "cancelled"}
    \/ f.state = "exception" /\ f.error = "rpc"
C17_ResolutionRemovesOwnEntry ==
    [][/\ (/\ observed'.ev = "frame"
           /\ observed'.kind \in {"result", "error"}
           /\ observed'.id \in _pending) =>
            _pending' = _pending \ {observed'.id}
       /\ (observed'.ev = "returned" /\ observed'.kind = "timeout") =>
            _pending' = _pending \ {observed'.id}
       /\ \A i \in DOMAIN futures' : Resolved(futures'[i]) => i \notin _pending'
      ]_all_vars

\* a response has just resolved one of two pending calls
C17_Witness ==
    /\ observed.ev = "frame" /\ observed.kind = "result"
    /\ observed.id \in DOMAIN futures /\ futures[observed.id].state = "result"
    /\ \E i \in _pending : i # observed.id /\ futures[i].state = "pending"

\* C18: in the step in which the read loop finds its connection closed by
\* the peer, cleanly or not, the pending table becomes empty.
C18_AsStated ==
    [][\A t \in DOMAIN tasks :
            (/\ tasks[t].state = "running"
             /\ Closed(tasks[t].conn)
             /\ tasks'[t].state # "running"
             /\ disc' = disc) => _pending' = {}
      ]_all_vars

\* C19: once the read loop of the client's reader task has found the
\* connection closed, connected is false.
C19_AsStated ==
    (_reader_task # NoTask /\ tasks[_reader_task].state = "finished") => ~connected

\* C20: when disconnect returns from a connected client there is no
\* connection, no reader task and no pending entry; disconnect on a client
\* without connection changes nothing.
C20_AsStated ==
    [][/\ observed'.ev = "disconnected" =>
            /\ _ws' = NoConnection
            /\ _reader_task' = NoTask
            /\ _pending' = {}
       /\ observed'.ev = "noop" =>
            UNCHANGED <<client, futures, callers, disc, tasks, conns>>
      ]_all_vars

\* C21: no call registers its future for, or sends its frame on, the
\* connection that a disconnect in progress is closing.
C21_AsStated ==
    [][\A c \in Callers :
            /\ (callers[c].pc # "send" /\ callers'[c].pc = "send") =>
                    ~(disc.pc = "close" /\ callers'[c].ws = disc.ws)
            /\ (callers[c].pc = "send" /\ callers'[c].pc = "wait") =>
                    ~(disc.pc = "close" /\ callers[c].ws = disc.ws)
      ]_all_vars

\* C22: the iteration of the read loop on a malformed frame (not parseable,
\* not an object, without an integer id, or with an error field that is not
\* an object) leaves the reader tasks, the pending table and the futures as
\* they were.
Malformed == {"unparseable", "nonobject", "noid", "baderror"}
C22_AsStated ==
    [][(observed'.ev = "frame" /\ observed'.kind \in Malformed) =>
            UNCHANGED <<tasks, _pending, futures>>
      ]_all_vars

\* C23: the iteration of the read loop on a response object whose id has an
\* entry in the pending table removes that entry and no other, gives that
\* future the remote failure when the frame has an error object and the
\* result payload otherwise, and leaves every other future and the reader
\* as they were; on a frame whose id has no entry it changes nothing.
C23_ResponseResolvesItsCall ==
    [][observed'.ev = "frame" =>
        LET id == observed'.id
            kind == observed'.kind
        IN
        /\ (kind \in {"result", "error"} /\ id \in _pending) =>
                /\ _pending' = _pending \ {id}
                /\ id \in DOMAIN futures' =>
                        futures'[id] = IF kind = "error"
                                       THEN RemoteFailure(observed'.payload)
                                       ELSE ResultFuture(observed'.payload)
                /\ \A i \in DOMAIN futures' \ {id} : futures'[i] = futures[i]
                /\ tasks' = tasks
        /\ (kind \in WithId /\ id \notin _pending) =>
                UNCHANGED <<client, futures, callers, disc, tasks, conns>>
      ]_all_vars

\* an error object has just failed one of two pending calls
C23_Witness ==
    /\ observed.ev = "frame" /\ observed.kind = "error"
    /\ observed.id \in DOMAIN futures
    /\ futures[observed.id] = RemoteFailure(observed.id)
    /\ \E i \in _pending : i # observed.id /\ futures[i].state = "pending"

\* C37 as stated: in every state at most one connection is open, at most
\* one reader task is alive, and every open connection is the one that
\* self._ws holds.
C37_AsStated ==
    /\ Cardinality({k \in DOMAIN conns : conns[k].state = "open"}) <= 1
    /\ Cardinality({t \in DOMAIN tasks : Alive(t)}) <= 1
    /\ \A k \in DOMAIN conns : conns[k].state = "open" => k = _ws

\* C39 as stated: every request id in the pending table is the id of a call
\* in progress, one that is sending its frame or waiting for its result.
C39_AsStated ==
    \A id \in _pending :
        \E c \in Callers :
            /\ callers[c].req_id = id
            /\ callers[c].pc \in {"send", "wait"}

\* the outcomes a call that has sent its frame may end with
SentOutcomes == {"result", "rpc_error", "timeout", "closed"}

\* C38: a call that has sent its frame does not wait for ever, and the step
\* that ends its wait returns to that caller, once, one of result, remote
\* error, timeout error and connection-closed error, whatever frames the
\* gateway has sent and whether or not it has closed the connection.
C38_SentCallReturnsOneOutcome ==
    /\ \A c \in Callers : []<>(~Waiting(c))
    /\ [][\A c \in Callers :
            (Waiting(c) /\ ~Waiting(c)') =>
                /\ callers'[c] = Idle
                /\ observed'.ev = "returned"
                /\ observed'.caller = c
                /\ observed'.id = callers[c].req_id
                /\ observed'.kind \in SentOutcomes
         ]_all_vars

\* a call has just ended with the timeout after a frame made the reader
\* task crash
C38_Witness ==
    /\ ReturnedWith("timeout")
    /\ _reader_task # NoTask
    /\ tasks[_reader_task].state = "crashed"

\* =================================================== TenantProvisioner
\* clawdesk/openclaw/provisioner.py, with the gateway of
\* tests/test_provisioner.py (MockGateway) as the remote side and the
\* failures of GatewayClient._request as the ways a gateway call can fail
\* locally.

Ops == {"p", "q"}

Running(o) == ops[o].pc # "idle"

\* the ProvisioningResult a call returns, with where the call stood
ProvisioningResult(o, status, error) ==
    [op |-> o, call |-> ops[o].call, agent |-> ops[o].agent,
     status |-> status, error |-> error, from |-> ops[o].pc,
     applied |-> ops[o].applied]

\* the errors with which _add_agent_to_config / _remove_agent_from_config
\* end; a result with any other error comes from a mutation that returned
MutationErrors == {"duplicate", "conflict", "remote", "closed", "timeout"}

\* what the callers have been told: an add has succeeded when provision
\* returns success, a remove when deprovision got past its registry removal
Report(r, res) ==
    IF res.call = "provision" /\ res.status = "success" THEN r \cup {res.agent}
    ELSE IF res.call = "deprovision" /\ res.error \notin MutationErrors
    THEN r \ {res.agent}
    ELSE r

\* a call may start while the patches it can still cause stay within the
\* bound
MayStartOp ==
    patch_config_calls + Cardinality({o \in Ops : Running(o)}) < MaxPatches

\* OpenClawConfigSnapshot(config, hash) as MockGateway.get_config builds it
OpenClawConfigSnapshot == [config |-> _config, hash |-> _hash]

AlreadyExists_Never(agent_list, agent) == FALSE

\* any(a.get("id") == agent.id for a in agent_list)
AlreadyExists(agent_list, agent) ==
    \E i \in DOMAIN agent_list : agent_list[i] = agent

\* [*agent_list, agent.model_dump()]
AddedList(agent_list, agent) == Append(agent_list, agent)

FilteredList_DropsLast(agent_list, agent) ==
    SubSeq(agent_list, 1, Len(agent_list) - 1)

\* [a for a in agent_list if a.get("id") != agent_id]
FilteredList(agent_list, agent) ==
    SelectSeq(agent_list, LAMBDA x : x # agent)

\* the agents.list of the patch that the call submits
PatchList(op) ==
    IF op.call = "provision"
    THEN AddedList(op.snapshot.config, op.agent)
    ELSE FilteredList(op.snapshot.config, op.agent)

BaseHash_Current(op) == _hash

\* the base_hash that the call submits with its patch
BaseHash(op) == op.snapshot.hash

\* shutil.rmtree(workspace_path, ignore_errors=True)
Rmtree(ws, agent) == [ws EXCEPT ![agent] = FALSE]

\* provision: the workspace is created, then _add_agent_to_config awaits
\* get_config
ProvisionStart(o, slug) ==
    LET agent == tenant_to_agent_id(slug) IN
        /\ ~Running(o)
        /\ MayStartOp
        /\ workspaces' = [workspaces EXCEPT ![agent] = TRUE]
        /\ ops' = [ops EXCEPT ![o] = [NotRunning EXCEPT !.pc = "get",
                                        !.call = "provision", !.agent = agent]]
        /\ result' = NoResult
        /\ UNCHANGED <<_config, _hash, patch_config_calls, archived>>
        /\ UNCHANGED <<vars, client_vars, app_vars>>
        /\ reported' = Report(reported, result')

\* provision: _create_workspace raises; the except clause removes the
\* directory and returns the failure
ProvisionWorkspaceFailed(o, slug) ==
    LET agent == tenant_to_agent_id(slug) IN
        /\ ~Running(o)
        /\ workspaces' = Rmtree(workspaces, agent)
        /\ result' = [NoResult EXCEPT !.op = o, !.call = "provision",
                                      !.agent = agent, !.status = "failed",
                                      !.error = "oserror", !.from = "create"]
        /\ UNCHANGED <<_config, _hash, patch_config_calls, archived, ops>>
        /\ UNCHANGED <<vars, client_vars, app_vars>>
        /\ reported' = Report(reported, result')

\* deprovision: _remove_agent_from_config awaits get_config
DeprovisionStart(o, slug) ==
    LET agent == tenant_to_agent_id(slug) IN
        /\ ~Running(o)
        /\ MayStartOp
        /\ ops' = [ops EXCEPT ![o] = [NotRunning EXCEPT !.pc = "get",
                                        !.call = "deprovision", !.agent = agent]]
        /\ result' = NoResult
        /\ UNCHANGED <<_config, _hash, patch_config_calls,
                       workspaces, archived>>
        /\ UNCHANGED <<vars, client_vars, app_vars>>
        /\ reported' = Report(reported, result')

\* the gateway answers config.get with its document and version
GatewayGet(o) ==
    /\ ops[o].pc = "get"
    /\ ops' = [ops EXCEPT ![o].pc = "got", ![o].snapshot = OpenClawConfigSnapshot]
    /\ result' = NoResult
    /\ UNCHANGED <<_config, _hash, patch_config_calls, workspaces, archived>>
    /\ UNCHANGED <<vars, client_vars, app_vars>>
    /\ reported' = Report(reported, result')

\* what provision's except clause does and returns
ProvisionExcept(o, error) ==
    /\ workspaces' = Rmtree(workspaces, ops[o].agent)
    /\ result' = ProvisioningResult(o, "failed", error)
    /\ ops' = [ops EXCEPT ![o] = NotRunning]
    /\ UNCHANGED archived

\* what deprovision's except clause returns
DeprovisionExcept(o, error) ==
    /\ result' = ProvisioningResult(o, "failed", error)
    /\ ops' = [ops EXCEPT ![o] = NotRunning]
    /\ UNCHANGED <<workspaces, archived>>

Except(o, error) ==
    IF ops[o].call = "provision" THEN ProvisionExcept(o, error)
    ELSE DeprovisionExcept(o, error)

\* _add_agent_to_config: the snapshot already lists the agent
AddDuplicate(o) ==
    /\ ops[o].pc = "got" /\ ops[o].call = "provision"
    /\ AlreadyExists(ops[o].snapshot.config, ops[o].agent)
    /\ ProvisionExcept(o, "duplicate")
    /\ UNCHANGED <<_config, _hash, patch_config_calls>>
    /\ UNCHANGED <<vars, client_vars, app_vars>>
    /\ reported' = Report(reported, result')

\* _add_agent_to_config / _remove_agent_from_config: patch_config is called
\* with the new list and the snapshot's hash
SubmitPatch(o) ==
    /\ ops[o].pc = "got"
    /\ IF ops[o].call = "provision"
       THEN ~AlreadyExists(ops[o].snapshot.config, ops[o].agent)
       ELSE Len(FilteredList(ops[o].snapshot.config, ops[o].agent))
                # Len(ops[o].snapshot.config)
    /\ ops' = [ops EXCEPT ![o].pc = "patch"]
    /\ result' = NoResult
    /\ UNCHANGED <<_config, _hash, patch_config_calls, workspaces, archived>>
    /\ UNCHANGED <<vars, client_vars, app_vars>>
    /\ reported' = Report(reported, result')

\* deprovision after the agent is out of the registry: the workspace, if it
\* exists, is renamed to its archive name; a failing rename is caught
Archive(o, renamed) ==
    LET agent == ops[o].agent IN
    IF ~workspaces[agent]
    THEN /\ result' = ProvisioningResult(o, "success", "none")
         /\ UNCHANGED <<workspaces, archived>>
    ELSE IF renamed
    THEN /\ workspaces' = [workspaces EXCEPT ![agent] = FALSE]
         /\ archived' = [archived EXCEPT ![agent] = TRUE]
         /\ result' = ProvisioningResult(o, "success", "none")
    ELSE /\ result' = ProvisioningResult(o, "failed", "oserror")
         /\ UNCHANGED <<workspaces, archived>>

\* _remove_agent_from_config: the snapshot does not list the agent, nothing
\* is submitted and deprovision goes on to the workspace
RemoveAbsent(o) ==
    /\ ops[o].pc = "got" /\ ops[o].call = "deprovision"
    /\ Len(FilteredList(ops[o].snapshot.config, ops[o].agent))
            = Len(ops[o].snapshot.config)
    /\ \E renamed \in BOOLEAN : Archive(o, renamed)
    /\ ops' = [ops EXCEPT ![o] = NotRunning]
    /\ UNCHANGED <<_config, _hash, patch_config_calls>>
    /\ UNCHANGED <<vars, client_vars, app_vars>>
    /\ reported' = Report(reported, result')

\* hash-<n> after n recorded calls
HashAfter(calls) == calls

\* MockGateway.patch_config, _fail_patch being set or not at the call
GatewayPatch(o, _fail_patch) ==
    /\ ops[o].pc = "patch"
    /\ IF _fail_patch
       THEN /\ ops' = [ops EXCEPT ![o].pc = "reply", ![o].reply = "remote"]
            /\ UNCHANGED <<_config, _hash, patch_config_calls>>
       ELSE IF BaseHash(ops[o]) # _hash
       THEN /\ ops' = [ops EXCEPT ![o].pc = "reply", ![o].reply = "conflict"]
            /\ UNCHANGED <<_config, _hash, patch_config_calls>>
       ELSE /\ patch_config_calls' = patch_config_calls + 1
            /\ _config' = PatchList(ops[o])
            /\ _hash' = HashAfter(patch_config_calls')
            /\ ops' = [ops EXCEPT ![o].pc = "reply", ![o].reply = "ok",
                                  ![o].applied = TRUE]
    /\ result' = NoResult
    /\ UNCHANGED <<workspaces, archived>>
    /\ UNCHANGED <<vars, client_vars, app_vars>>
    /\ reported' = Report(reported, result')

\* patch_config returns: provision reports success, deprovision archived
PatchReturns(o) ==
    /\ ops[o].pc = "reply" /\ ops[o].reply = "ok"
    /\ IF ops[o].call = "provision"
       THEN /\ result' = ProvisioningResult(o, "success", "none")
            /\ UNCHANGED <<workspaces, archived>>
       ELSE \E renamed \in BOOLEAN : Archive(o, renamed)
    /\ ops' = [ops EXCEPT ![o] = NotRunning]
    /\ UNCHANGED <<_config, _hash, patch_config_calls>>
    /\ UNCHANGED <<vars, client_vars, app_vars>>
    /\ reported' = Report(reported, result')

\* patch_config raises what the gateway answered
PatchRejected(o) ==
    /\ ops[o].pc = "reply" /\ ops[o].reply # "ok"
    /\ Except(o, ops[o].reply)
    /\ UNCHANGED <<_config, _hash, patch_config_calls>>
    /\ UNCHANGED <<vars, client_vars, app_vars>>
    /\ reported' = Report(reported, result')

\* a gateway call awaited by the operation fails locally: the connection is
\* closed or the call times out, whether or not the gateway has answered
LocalFailures == {"closed", "timeout"}
CallFails(o, error) ==
    /\ Running(o)
    /\ Except(o, error)
    /\ UNCHANGED <<_config, _hash, patch_config_calls>>
    /\ UNCHANGED <<vars, client_vars, app_vars>>
    /\ reported' = Report(reported, result')

ProvNext ==
    \/ \E o \in Ops, slug \in Slugs : ProvisionStart(o, slug)
    \/ \E o \in Ops, slug \in Slugs : ProvisionWorkspaceFailed(o, slug)
    \/ \E o \in Ops, slug \in Slugs : DeprovisionStart(o, slug)
    \/ \E o \in Ops : GatewayGet(o)
    \/ \E o \in Ops : AddDuplicate(o)
    \/ \E o \in Ops : SubmitPatch(o)
    \/ \E o \in Ops : RemoveAbsent(o)
    \/ \E o \in Ops, _fail_patch \in BOOLEAN : GatewayPatch(o, _fail_patch)
    \/ \E o \in Ops : PatchReturns(o)
    \/ \E o \in Ops : PatchRejected(o)
    \/ \E o \in Ops, error \in LocalFailures : CallFails(o, error)

ProvSpec == Init /\ [][ProvNext]_all_vars

ProvTypeOK ==
    /\ _hash \in 0..MaxPatches
    /\ patch_config_calls \in 0..MaxPatches
    /\ \A a \in AgentIds : workspaces[a] \in BOOLEAN /\ archived[a] \in BOOLEAN
    /\ \A o \in Ops : ops[o].pc \in {"idle", "get", "got", "patch", "reply"}
    /\ \A o \in Ops : ops[o].pc = "idle" => ops[o] = NotRunning
    /\ \A i, j \in DOMAIN _config : i # j => _config[i] # _config[j]


\* ------------------------------------------------- claims, provisioner
gateway == <<_config, _hash, patch_config_calls>>

Listed(agent_list, agent) == \E i \in DOMAIN agent_list : agent_list[i] = agent

\* operation o takes the step that follows the return of its get_config
AfterGet(o) ==
    /\ ops[o].pc = "got"
    /\ ops'[o] # ops[o]
    /\ result'.error \notin LocalFailures

\* C24: when the snapshot that get_config returned lists the agent to add,
\* the operation fails with the duplicate error without calling
\* patch_config, and the step leaves the gateway's document and version as
\* they were.
C24_DuplicateAddFailsWithoutPatch ==
    [][\A o \in Ops :
            (AfterGet(o) /\ ops[o].call = "provision"
                /\ Listed(ops[o].snapshot.config, ops[o].agent)) =>
                    /\ result'.op = o
                    /\ result'.status = "failed"
                    /\ result'.error = "duplicate"
                    /\ ops'[o].pc = "idle"
                    /\ UNCHANGED gateway
      ]_all_vars

\* a second provision of a registered agent has just failed as a duplicate
C24_Witness ==
    /\ result.call = "provision"
    /\ result.status = "failed"
    /\ result.error = "duplicate"
    /\ result.from = "got"
    /\ Listed(_config, result.agent)

\* C25: when the snapshot that get_config returned does not list the agent
\* to remove, the removal returns without calling patch_config and without
\* an error of its own, and the step leaves the gateway's document and
\* version as they were, however often it is repeated.
C25_AbsentRemoveIsNoop ==
    [][\A o \in Ops :
            (AfterGet(o) /\ ops[o].call = "deprovision"
                /\ ~Listed(ops[o].snapshot.config, ops[o].agent)) =>
                    /\ result'.op = o
                    /\ result'.error \notin MutationErrors
                    /\ ops'[o].pc = "idle"
                    /\ UNCHANGED gateway
      ]_all_vars

\* a deprovision of an agent that a non-empty registry does not list has
\* just returned success, having archived the workspace it found
C25_Witness ==
    /\ result.call = "deprovision"
    /\ result.status = "success"
    /\ result.from = "got"
    /\ _config # <<>>
    /\ ~Listed(_config, result.agent)
    /\ archived[result.agent]

\* C26: every patch that the gateway applies changes its version; and when
\* an operation's patch has been applied, the patch of another operation
\* that carries the same base version is rejected without changing the
\* document or the version; a rejected patch ends its operation with a
\* failed result.
C26_AsStated ==
    [][/\ patch_config_calls' # patch_config_calls => _hash' # _hash
       /\ \A o1, o2 \in Ops :
            (/\ o1 # o2
             /\ ops[o1].applied
             /\ ops[o2].pc = "patch" /\ ops'[o2].pc = "reply"
             /\ BaseHash(ops[o2]) = BaseHash(ops[o1])) =>
                    /\ ops'[o2].reply # "ok"
                    /\ UNCHANGED gateway
       /\ \A o \in Ops :
            (ops[o].pc = "reply" /\ ops[o].reply # "ok" /\ ops'[o].pc = "idle") =>
                    result'.op = o /\ result'.status = "failed"
      ]_all_vars

\* C27: an operation whose add or remove mutation ends with an error
\* (duplicate, conflict, remote error, closed connection or timeout) has not
\* had a patch applied by the gateway.
C27_AsStated ==
    [][(result'.status = "failed" /\ result'.error \in MutationErrors) =>
            ~result'.applied
      ]_all_vars

\* C28: every provision ends by returning a result; when the result is
\* failed it carries an error and the workspace directory of the agent does
\* not exist; when the result is success the workspace directory exists and
\* the registry lists the agent.
C28_AsStated ==
    [][/\ \A o \in Ops :
            (ops[o].call = "provision" /\ ops'[o].pc = "idle") =>
                    result'.op = o /\ result'.status \in {"success", "failed"}
       /\ (result'.call = "provision" /\ result'.status = "failed") =>
                    /\ result'.error # "none"
                    /\ ~workspaces'[result'.agent]
       /\ (result'.call = "provision" /\ result'.status = "success") =>
                    /\ workspaces'[result'.agent]
                    /\ Listed(_config', result'.agent)
      ]_all_vars

\* C29: a workspace is archived only by a deprovision whose registry
\* removal has returned, and a deprovision takes a workspace away only by
\* archiving it; when deprovision returns success the registry does not
\* list the agent, its workspace path is free and the workspace that was
\* there is archived; when the registry removal fails the result is failed
\* and workspaces and archives are as they were.
C29_AsStated ==
    [][/\ \A a \in AgentIds :
            archived'[a] # archived[a] =>
                /\ result'.call = "deprovision" /\ result'.agent = a
                /\ result'.from = "got" \/ result'.applied
                /\ workspaces[a] /\ ~workspaces'[a]
       /\ result'.call = "deprovision" =>
                \A a \in AgentIds :
                    (workspaces[a] /\ ~workspaces'[a]) => archived'[a]
       /\ (result'.call = "deprovision" /\ result'.status = "success") =>
                /\ ~Listed(_config', result'.agent)
                /\ ~workspaces'[result'.agent]
                /\ workspaces[result'.agent] => archived'[result'.agent]
       /\ (result'.call = "deprovision" /\ result'.error \in MutationErrors) =>
                /\ result'.status = "failed"
                /\ UNCHANGED <<workspaces, archived>>
      ]_all_vars

\* C30: an operation fetches one snapshot, right after it starts; the patch
\* it submits, if any, follows that fetch, carries the version of that
\* snapshot as its base (the gateway applies it only when this version is
\* still its own), and is the operation's only patch: after submitting it
\* the operation only waits for the reply and returns.
C30_PatchCarriesOwnFreshSnapshot ==
    [][\A o \in Ops :
        /\ (ops'[o].pc = "get" /\ ops[o].pc # "get") => ops[o].pc = "idle"
        /\ (ops'[o].pc = "got" /\ ops[o].pc # "got") =>
                /\ ops[o].pc = "get"
                /\ ops'[o].snapshot = [config |-> _config, hash |-> _hash]
        /\ (ops'[o].pc = "patch" /\ ops[o].pc # "patch") =>
                /\ ops[o].pc = "got"
                /\ ops'[o].snapshot = ops[o].snapshot
        /\ (ops[o].pc = "patch" /\ ops'[o] # ops[o]) =>
                /\ ops'[o].pc \in {"reply", "idle"}
                /\ ops'[o].reply = "ok" => ops[o].snapshot.hash = _hash
                /\ ops'[o].reply = "conflict" => ops[o].snapshot.hash # _hash
        /\ (ops[o].pc = "reply" /\ ops'[o] # ops[o]) => ops'[o].pc = "idle"
      ]_all_vars

\* the gateway has just rejected a patch whose base is the version of a
\* snapshot that is no longer current
C30_Witness ==
    \E o \in Ops :
        /\ ops[o].pc = "reply"
        /\ ops[o].reply = "conflict"
        /\ ops[o].snapshot.hash # _hash
        /\ ops[o].snapshot.hash > 0

\* C35 as stated: whenever no provision or deprovision is in progress,
\* every agent that the registry lists has its workspace directory.
C35_AsStated ==
    (\A o \in Ops : ~Running(o)) =>
        \A a \in AgentIds : Listed(_config, a) => workspaces[a]

\* C36 as stated, for a gateway that has applied no patch to a document
\* other than the one the patch was computed from (true as long as it has
\* applied at most one): the registry lists no agent id twice, and whenever
\* no operation is in progress it lists exactly the agents whose add has
\* reported success with no remove reporting success since.
C36_AsStated ==
    patch_config_calls <= 1 =>
        /\ \A i, j \in DOMAIN _config : i # j => _config[i] # _config[j]
        /\ (\A o \in Ops : ~Running(o)) =>
                {_config[i] : i \in DOMAIN _config} = reported

\* ================================================================== app.py
\* The FastAPI routes of create_app over the in-memory store.  The
\* provisioner is seen from the routes as the status of the result it
\* returns, success or failed.

AppTenantIds == 1..MaxCreated

\* TenantStatus
TenantStatus == {"provisioning", "active", "paused", "suspended", "deleting"}

Response(route, code, id) == [route |-> route, code |-> code, tenant_id |-> id]

\* tenant = Tenant(..., slug=req.slug, status=...)
StoredTenant(slug, status) == [slug |-> slug, status |-> status]

\* _tenants.get(tenant_id)
Registered(id) == _tenants[id] # Missing

\* POST /tenants when a registered tenant has the slug
CreateTenantRejected(slug) ==
    /\ \E i \in AppTenantIds : Registered(i) /\ _tenants[i].slug = slug
    /\ response' = Response("create_tenant", 400, 0)
    /\ UNCHANGED <<_tenants, _api_keys, creating, deleting, created>>
    /\ UNCHANGED <<vars, client_vars, prov_vars>>

\* POST /tenants up to `await provisioner.provision(tenant)`: the slug is
\* compared with the registered tenants and a fresh id is generated
CreateTenantStart(slug) ==
    /\ ~ \E i \in AppTenantIds : Registered(i) /\ _tenants[i].slug = slug
    /\ created < MaxCreated
    /\ created' = created + 1
    /\ creating' = creating \cup {[tenant_id |-> created', slug |-> slug]}
    /\ response' = NoResponse
    /\ UNCHANGED <<_tenants, _api_keys, deleting>>
    /\ UNCHANGED <<vars, client_vars, prov_vars>>

\* provision has returned: a failure is answered with 500, otherwise the
\* tenant becomes ACTIVE and is stored with its API key
CreateTenantFinish(r, status) ==
    /\ r \in creating
    /\ creating' = creating \ {r}
    /\ IF status = "failed"
       THEN /\ response' = Response("create_tenant", 500, r.tenant_id)
            /\ UNCHANGED <<_tenants, _api_keys>>
       ELSE /\ _tenants' = [_tenants EXCEPT ![r.tenant_id] = StoredTenant(r.slug, "active")]
            /\ _api_keys' = [_api_keys EXCEPT ![r.tenant_id] = r.tenant_id]
            /\ response' = Response("create_tenant", 201, r.tenant_id)
    /\ UNCHANGED <<deleting, created>>
    /\ UNCHANGED <<vars, client_vars, prov_vars>>

\* PATCH /tenants/{tenant_id}: req.status is a TenantStatus or is not given
UpdateTenant(id, status) ==
    /\ IF ~Registered(id)
       THEN /\ response' = Response("update_tenant", 404, id)
            /\ UNCHANGED _tenants
       ELSE /\ _tenants' = [_tenants EXCEPT ![id].status =
                                IF status = "unset" THEN @ ELSE status]
            /\ response' = Response("update_tenant", 200, id)
    /\ UNCHANGED <<_api_keys, creating, deleting, created>>
    /\ UNCHANGED <<vars, client_vars, prov_vars>>

\* DELETE /tenants/{tenant_id} for a tenant that is not stored
DeleteTenantNotFound(id) ==
    /\ ~Registered(id)
    /\ response' = Response("delete_tenant", 404, id)
    /\ UNCHANGED <<_tenants, _api_keys, creating, deleting, created>>
    /\ UNCHANGED <<vars, client_vars, prov_vars>>

\* DELETE /tenants/{tenant_id} up to `await provisioner.deprovision(tenant)`
DeleteTenantStart(id) ==
    /\ Registered(id)
    /\ id \notin deleting
    /\ deleting' = deleting \cup {id}
    /\ response' = NoResponse
    /\ UNCHANGED <<_tenants, _api_keys, creating, created>>
    /\ UNCHANGED <<vars, client_vars, prov_vars>>

\* deprovision has returned: a failure is answered with 500, otherwise the
\* tenant's API keys and the tenant are removed
DeleteTenantFinish(id, status) ==
    /\ id \in deleting
    /\ deleting' = deleting \ {id}
    /\ IF status = "failed"
       THEN /\ response' = Response("delete_tenant", 500, id)
            /\ UNCHANGED <<_tenants, _api_keys>>
       ELSE /\ _api_keys' = [k \in DOMAIN _api_keys |->
                                IF _api_keys[k] = id THEN NoTenantId ELSE _api_keys[k]]
            /\ _tenants' = [_tenants EXCEPT ![id] = Missing]
            /\ response' = Response("delete_tenant", 204, id)
    /\ UNCHANGED <<creating, created>>
    /\ UNCHANGED <<vars, client_vars, prov_vars>>

\* POST /tenants/{tenant_id}/messages
SendMessage(id) ==
    /\ response' =
            IF ~Registered(id) THEN Response("send_message", 404, id)
            ELSE IF _tenants[id].status # "active"
                 THEN Response("send_message", 403, id)
                 ELSE Response("send_message", 200, id)
    /\ UNCHANGED <<_tenants, _api_keys, creating, deleting, created>>
    /\ UNCHANGED <<vars, client_vars, prov_vars>>

\* POST /chat with the header x-api-key
ChatViaApiKey(x_api_key) ==
    /\ response' =
            LET tenant_id == _api_keys[x_api_key] IN
            IF tenant_id = NoTenantId THEN Response("chat_via_api_key", 401, 0)
            ELSE IF ~Registered(tenant_id)
                 THEN Response("chat_via_api_key", 404, tenant_id)
                 ELSE Response("chat_via_api_key", 200, tenant_id)
    /\ UNCHANGED <<_tenants, _api_keys, creating, deleting, created>>
    /\ UNCHANGED <<vars, client_vars, prov_vars>>

AppNext ==
    \/ \E slug \in Slugs : CreateTenantRejected(slug)
    \/ \E slug \in Slugs : CreateTenantStart(slug)
    \/ \E r \in creating, status \in {"success", "failed"} : CreateTenantFinish(r, status)
    \/ \E id \in AppTenantIds, status \in TenantStatus \cup {"unset"} : UpdateTenant(id, status)
    \/ \E id \in AppTenantIds : DeleteTenantNotFound(id)
    \/ \E id \in AppTenantIds : DeleteTenantStart(id)
    \/ \E id \in deleting, status \in {"success", "failed"} : DeleteTenantFinish(id, status)
    \/ \E id \in AppTenantIds : SendMessage(id)
    \/ \E x_api_key \in AppTenantIds : ChatViaApiKey(x_api_key)

AppSpec == Init /\ [][AppNext]_all_vars

AppTypeOK ==
    /\ _tenants \in [AppTenantIds ->
            {Missing} \cup {StoredTenant(s, st) : s \in Slugs, st \in TenantStatus}]
    /\ _api_keys \in [AppTenantIds -> {NoTenantId} \cup AppTenantIds]
    /\ created \in 0..MaxCreated
    /\ deleting \subseteq AppTenantIds
    /\ \A r \in creating : r.tenant_id \in AppTenantIds /\ r.slug \in Slugs

\* ------------------------------------------------------------ app claims

\* C40 as stated: a message route answers with a routing decision only for
\* a tenant whose status is ACTIVE.
C40_AsStated ==
    (response.route \in {"send_message", "chat_via_api_key"} /\ response.code = 200) =>
        _tenants[response.tenant_id].status = "active"

====
